---------------------------- MODULE Spec2Model ----------------------------
(***************************************************************************)
(* Model of the decentralized cloud-storage marketplace simulation of      *)
(* src/enhanced_cloud_storage.py: the message bus, the buyer, the storage  *)
(* provider and the broker (IntermediaryNetworkAgent), with their          *)
(* cooperative tasks interleaved at the suspension points of the code      *)
(* (await send_message, await receive_message, await asyncio.sleep).       *)
(*                                                                         *)
(* Representation of the numbers of the code:                              *)
(*   time      whole seconds; time.time() is the clock `now`.  A sleep of  *)
(*             d whole seconds ends exactly d ticks later; a sub-second    *)
(*             sleep (bus latency 0.05-0.5 s, processing 0.05-0.2 s) ends  *)
(*             in the tick it started in or in the next one.               *)
(*   duration  duration_hours is kept as the number of seconds it spans    *)
(*             (duration_hours * 3600), so end_time = start + duration.    *)
(*   price     price_per_gb_hour in cents (0.5 $ is 50).                   *)
(*   cost      space_gb * duration * price, i.e. in units of 1/360000 $.   *)
(*   reputation  in thousandths (5.0 is 5000); a product is rounded down.  *)
(*   probability in percent; a draw against 0 never succeeds, against 100  *)
(*             always, against anything between either way.                *)
(***************************************************************************)
EXTENDS Integers, Sequences, FiniteSets, TLC

VARIABLES
    now,            \* time.time(), in whole seconds
    cfg,            \* the run's workload: request parameters drawn, horizon
    mailboxes,      \* MessageBus.mailboxes: agent id -> queue of envelopes
    message_count,  \* MessageBus.message_count
    prov,           \* StorageProviderAgent objects and their tasks
    brk,            \* the IntermediaryNetworkAgent and its tasks
    buy,            \* BuyerAgent objects and their tasks
    metrics,        \* global_metrics: the counters of SimulationMetrics
    drv,            \* the driver run_single_simulation: where it is
    req_count,      \* storage requests generated so far in the run
    sel,            \* what a probe recorded: inputs, calls made, results
    steps,          \* operations applied so far in a pure-function probe
    late            \* sleeps shorter than a second that ended in the next second

vars == <<now, cfg, mailboxes, message_count, prov, brk, buy, metrics, drv, req_count, sel, steps, late>>

---------------------------------------------------------------------------
(* Bounds of the model *)

MaxTime == 6
MaxRequests == 2
RunDuration == 4
MaxRepSteps == 4
MaxTimeA == 16
MaxTimePricing == 11
MaxSelectSteps == 3
MaxLate == 1
MaxTimeFaults == 6
MaxRelaySteps == 3
MaxTimeStop == 5
StopAfter == 2
MaxTimeFresh == 62
MaxFreshSteps == 3
MaxTimeHalt == 18
MaxPriceSteps == 3
MaxPriceWait == 2
MaxTimeMalformed == 3
MaxTimeQuick == 2
MaxTimeStray == 62
MaxStrayMessages == 3
MaxStraySteps == 1
MaxBusSends == 3
MaxBusRegistrations == 3
MaxBusTimeouts == 1
\* time.time() when the run starts
Epoch == 1000

(* Program constants *)

SweepInterval == 2
StatusInterval == 5
PricingInterval == 10
ManagerInterval == 15
FreshnessWindow == 30
EvictionTimeout == 60
SecondsPerHour == 3600
RepInitial == 5000
RepMin == 100
RepMax == 10000
RepFloor == 1000
RequestIntervalLo == 2
RequestIntervalHi == 8
\* BuyerAgent.request_interval: what the run configures, by default what
\* run_single_simulation passes
RequestInterval ==
    IF "request_interval" \in DOMAIN cfg THEN cfg.request_interval
    ELSE <<RequestIntervalLo, RequestIntervalHi>>
FinalWait == 2

Broker == "network"
Providers == {"provider0", "provider1"}
Buyers == {"buyer0", "buyer1"}

Min2(a, b) == IF a <= b THEN a ELSE b
Max2(a, b) == IF a >= b THEN a ELSE b

NoMsg == [type |-> "none"]

---------------------------------------------------------------------------
(* Data model *)

\* StorageRequest(...)
\* the fields StorageContract(**data) and StorageRequest(**data) need: with
\* any other set of keys the constructor raises TypeError
ContractFields ==
    {"contract_id", "buyer_id", "provider_id", "space_gb", "duration_hours",
     "price_per_gb_hour", "total_cost", "start_time", "end_time", "status"}

RequestFields ==
    {"buyer_id", "space_gb", "duration_hours", "max_price_per_gb_hour",
     "timestamp", "request_id"}

StorageRequest(buyer_id, space_gb, duration, max_price, timestamp, request_id) ==
    [buyer_id |-> buyer_id, space_gb |-> space_gb, duration_hours |-> duration,
     max_price_per_gb_hour |-> max_price, timestamp |-> timestamp,
     request_id |-> request_id]

\* StorageContract(...)
StorageContract(contract_id, buyer_id, provider_id, space_gb, duration, price, total_cost, start_time, end_time, status) ==
    [contract_id |-> contract_id, buyer_id |-> buyer_id, provider_id |-> provider_id,
     space_gb |-> space_gb, duration_hours |-> duration, price_per_gb_hour |-> price,
     total_cost |-> total_cost, start_time |-> start_time, end_time |-> end_time,
     status |-> status]

\* ProviderInfo(...): last_seen and response_time_avg are never read and left out
ProviderInfo(agent_id, total, available, reputation, price, succ, fail) ==
    [agent_id |-> agent_id, total_space_gb |-> total, available_space_gb |-> available,
     reputation |-> reputation, price_per_gb_hour |-> price,
     success_count |-> succ, failure_count |-> fail]

\* a cost that leaves the duration out: CostIsProduct tells it from CostOf
CostWithoutDuration(space_gb, duration, price) == space_gb * price

\* space_gb * duration_hours * price_per_gb_hour, left to right
CostOf(space_gb, duration, price) == (space_gb * duration) * price

\* A dict is the sequence of its values in insertion order, with distinct keys.
\* d[key] = value: an existing key keeps its place, a new one goes last
DictPut(d, key, value, field) ==
    IF \E i \in 1..Len(d) : d[i][field] = key
    THEN [i \in 1..Len(d) |-> IF d[i][field] = key THEN value ELSE d[i]]
    ELSE Append(d, value)

\* key in d
DictHas(d, key, field) == \E i \in 1..Len(d) : d[i][field] = key

\* d[key]
DictGet(d, key, field) == d[CHOOSE i \in 1..Len(d) : d[i][field] = key]

\* del d[key]
DictDel(d, key, field) == SelectSeq(d, LAMBDA x : x[field] # key)

\* the field that holds the key of a dict's values
ContractKey == "contract_id"
RequestKey == "request_id"

Range(s) == {s[i] : i \in 1..Len(s)}

RECURSIVE SumSpace(_)
SumSpace(s) == IF s = <<>> THEN 0 ELSE Head(s).space_gb + SumSpace(Tail(s))

---------------------------------------------------------------------------
(* Message bus *)

\* a bus that puts the newest envelope in front of the queue
DeliverInFront(boxes, count, from, to, body) ==
    [boxes EXCEPT ![to] = <<[from |-> from, to |-> to, body |-> body,
                             id |-> count]>> \o @]

\* MessageBus.send_message, after the latency: the envelope is built and queued
\* (the envelope's timestamp and latency fields are never read and left out)
Deliver(boxes, count, from, to, body) ==
    [boxes EXCEPT ![to] = Append(@, [from |-> from, to |-> to, body |-> body,
                                     id |-> count])]

\* a bus that takes a send for any recipient
SendsToAnyone(to) == TRUE

\* MessageBus.send_message, first test: the recipient has a mailbox
CanSend(to) == to \in DOMAIN mailboxes

\* a send that does not advance message_count
EnqueueWithoutCount(from, to, body) ==
    /\ mailboxes' = Deliver(mailboxes, message_count, from, to, body)
    /\ message_count' = message_count

\* One send_message call of a task: the recipient test, then the latency
\* during which the caller is suspended, then the enqueue.
Enqueue(from, to, body) ==
    /\ mailboxes' = Deliver(mailboxes, message_count, from, to, body)
    /\ message_count' = message_count + 1

\* A put on a queue whose owner waits in receive_message wakes the owner at
\* once, and a call that does not suspend runs on: no other task runs first.
Prompt ==
    /\ drv.pc \notin {"start_network", "start_provider", "start_buyer"}
    /\ ~(brk.h_pc = "recv" /\ mailboxes[Broker] # <<>>)
    /\ \A p \in Providers : ~(prov[p].h_pc = "recv" /\ mailboxes[p] # <<>>)
    /\ \A b \in Buyers : ~(buy[b].h_pc = "recv" /\ mailboxes[b] # <<>>)

\* The tasks of stopped agents whose sleep or receive timeout is over: each
\* finds running false and ends, which no other task observes.
DueEnds ==
    (IF brk.running THEN {}
     ELSE {<<Broker, t>> : t \in {t \in {"handler", "manager"} :
             \/ t = "handler" /\ brk.h_pc = "recv" /\ now >= brk.h_due
             \/ t = "manager" /\ brk.mgr_pc = "sleep" /\ now >= brk.mgr_wake}})
    \cup UNION {IF prov[p].running THEN {}
                ELSE {<<p, t>> : t \in {t \in {"handler", "sweep", "status", "pricing"} :
                        \/ t = "handler" /\ prov[p].h_pc = "recv" /\ now >= prov[p].h_due
                        \/ t = "sweep" /\ prov[p].sweep_pc = "sleep"
                             /\ now >= prov[p].sweep_wake
                        \/ t = "status" /\ prov[p].status_pc = "sleep"
                             /\ now >= prov[p].status_wake
                        \/ t = "pricing" /\ prov[p].pricing_pc = "sleep"
                             /\ now >= prov[p].pricing_wake}}
                : p \in Providers}
    \cup UNION {IF buy[b].running THEN {}
                ELSE {<<b, t>> : t \in {t \in {"handler", "request"} :
                        \/ t = "handler" /\ buy[b].h_pc = "recv" /\ now >= buy[b].h_due
                        \/ t = "request" /\ buy[b].req_pc = "sleep"
                             /\ now >= buy[b].req_wake}}
                : b \in Buyers}

\* They end before anything else runs, in the order the event loop holds them.
EndOrder ==
    <<<<Broker, "handler">>, <<Broker, "manager">>,
      <<"provider0", "handler">>, <<"provider0", "sweep">>, <<"provider0", "status">>,
      <<"provider0", "pricing">>,
      <<"provider1", "handler">>, <<"provider1", "sweep">>, <<"provider1", "status">>,
      <<"provider1", "pricing">>,
      <<"buyer0", "request">>, <<"buyer0", "handler">>,
      <<"buyer1", "request">>, <<"buyer1", "handler">>>>

NextToEnd(agent, task) ==
    LET first == CHOOSE i \in 1..Len(EndOrder) :
                    /\ EndOrder[i] \in DueEnds
                    /\ \A k \in 1..(i - 1) : EndOrder[k] \notin DueEnds
    IN DueEnds # {} /\ EndOrder[first] = <<agent, task>>

\* the tasks that run on without a suspension have run
Quiet == Prompt /\ DueEnds = {}

---------------------------------------------------------------------------
(* Storage provider *)

\* StorageProviderAgent.get_utilization() > num/den
UtilizationAbove(P, num, den) ==
    (P.total_space_gb - P.available_space_gb) * den > num * P.total_space_gb

\* StorageProviderAgent.get_utilization() < num/den
UtilizationBelow(P, num, den) ==
    (P.total_space_gb - P.available_space_gb) * den < num * P.total_space_gb

\* an update that does not clamp: ReputationBounded tells it from
\* update_reputation
UpdateWithoutClamp(P, success) ==
    IF success
    THEN [P EXCEPT !.success_count = @ + 1, !.reputation = (@ * 102) \div 100]
    ELSE [P EXCEPT !.failure_count = @ + 1, !.reputation = (@ * 98) \div 100]

\* StorageProviderAgent.update_reputation
update_reputation(P, success) ==
    IF success
    THEN [P EXCEPT !.success_count = @ + 1,
                   !.reputation = Min2((@ * 102) \div 100, RepMax)]
    ELSE [P EXCEPT !.failure_count = @ + 1,
                   !.reputation = Max2((@ * 98) \div 100, RepMin)]

\* an admission test that leaves the space test out: SpaceWithinBounds tells
\* it from can_fulfill_request
FulfilWithoutSpaceTest(P, space_needed) ==
    IF P.failure_probability = 0 THEN {TRUE}
    ELSE IF P.failure_probability = 100 THEN {FALSE}
    ELSE {TRUE, FALSE}

\* an admission test that leaves the failure draw out: RejectionReasoned tells
\* it from can_fulfill_request
FulfilWithoutFailureDraw(P, space_needed) ==
    IF P.available_space_gb < space_needed THEN {FALSE} ELSE {TRUE}

\* StorageProviderAgent.can_fulfill_request: the values it can return
can_fulfill_request(P, space_needed) ==
    IF P.available_space_gb < space_needed THEN {FALSE}
    ELSE IF P.failure_probability = 0 THEN {TRUE}
    ELSE IF P.failure_probability = 100 THEN {FALSE}
    ELSE {TRUE, FALSE}

\* a pricing that halves the base price at low utilisation: ScenarioAAccepted
\* tells it from DynamicPrice
HalfPriceWhenIdle(P) ==
    IF UtilizationAbove(P, 8, 10)
    THEN Min2((P.base_price_per_gb_hour * 15) \div 10, P.base_price_per_gb_hour * 2)
    ELSE IF UtilizationBelow(P, 3, 10)
    THEN (P.base_price_per_gb_hour * 5) \div 10
    ELSE P.base_price_per_gb_hour

\* a pricing rule that raises the price from a utilization of 0.8 on
DynamicPriceFromEightTenths(P) ==
    IF ~UtilizationBelow(P, 8, 10)
    THEN Min2((P.base_price_per_gb_hour * 15) \div 10, P.base_price_per_gb_hour * 2)
    ELSE IF UtilizationBelow(P, 3, 10)
    THEN Max2((P.base_price_per_gb_hour * 8) \div 10, (P.base_price_per_gb_hour * 5) \div 10)
    ELSE P.base_price_per_gb_hour

\* the price the dynamic_pricing task sets
DynamicPrice(P) ==
    IF UtilizationAbove(P, 8, 10)
    THEN Min2((P.base_price_per_gb_hour * 15) \div 10, P.base_price_per_gb_hour * 2)
    ELSE IF UtilizationBelow(P, 3, 10)
    THEN Max2((P.base_price_per_gb_hour * 8) \div 10, (P.base_price_per_gb_hour * 5) \div 10)
    ELSE P.base_price_per_gb_hour

\* the while self.running test at the top of a handler loop
LoopPc(running) == IF running THEN "recv" ELSE "done"

\* StorageProviderAgent.__init__
NewProvider(total, base, failp) ==
    [running |-> FALSE, start_pc |-> "new",
     total_space_gb |-> total, available_space_gb |-> total,
     base_price_per_gb_hour |-> base, current_price_per_gb_hour |-> base,
     failure_probability |-> failp,
     active_contracts |-> <<>>, completed_contracts |-> <<>>,
     reputation |-> RepInitial, success_count |-> 0, failure_count |-> 0,
     requests_received |-> 0, requests_accepted |-> 0, requests_rejected |-> 0,
     total_earnings |-> 0, contracts_completed |-> 0,
     reg_msg |-> NoMsg, reg_due |-> 0,
     h_pc |-> "off", h_msg |-> NoMsg, h_out |-> NoMsg, h_due |-> 0,
     sweep_pc |-> "off", sweep_wake |-> 0,
     status_pc |-> "off", status_msg |-> NoMsg, status_wake |-> 0,
     pricing_pc |-> "off", pricing_wake |-> 0]

\* StorageProviderAgent.register_with_broker: the message built
RegistrationOf(p, P) ==
    [type |-> "provider_registration",
     provider_info |-> ProviderInfo(p, P.total_space_gb, P.available_space_gb,
                                    P.reputation, P.current_price_per_gb_hour,
                                    P.success_count, P.failure_count)]

\* a sweep that takes a contract only after its end_time has passed
ExpiredStrictly(P) == SelectSeq(P.active_contracts, LAMBDA c : now > c.end_time)

\* contract_manager: the contracts one pass releases
Expired(P) == SelectSeq(P.active_contracts, LAMBDA c : now >= c.end_time)

\* contract_manager: one pass over the active contracts, then the sleep
SweepPass(P) ==
    [P EXCEPT !.available_space_gb = @ + SumSpace(Expired(P)),
              !.contracts_completed = @ + Len(Expired(P)),
              !.completed_contracts =
                  @ \o [i \in 1..Len(Expired(P)) |->
                            [Expired(P)[i] EXCEPT !.status = "completed"]],
              !.active_contracts = SelectSeq(@, LAMBDA c : ~(now >= c.end_time)),
              !.sweep_pc = "sleep",
              !.sweep_wake = now + SweepInterval]

\* status_updater: the status message built
StatusOf(p, P) ==
    [type |-> "status_update", provider_id |-> p,
     available_space_gb |-> P.available_space_gb,
     reputation |-> P.reputation,
     price_per_gb_hour |-> P.current_price_per_gb_hour,
     active_contracts |-> Len(P.active_contracts)]

\* status_updater: one iteration up to the latency of the send (an unknown
\* recipient makes send_message return at once, and the task sleeps)
StatusPass(p, P) ==
    IF CanSend(Broker)
    THEN [P EXCEPT !.status_pc = "send", !.status_msg = StatusOf(p, P),
                   !.status_wake = now + 1]
    ELSE [P EXCEPT !.status_pc = "sleep", !.status_wake = now + StatusInterval]

\* dynamic_pricing: one iteration, then the sleep
PricingPass(P) ==
    [P EXCEPT !.current_price_per_gb_hour = DynamicPrice(P),
              !.pricing_pc = "sleep",
              !.pricing_wake = now + PricingInterval]

\* StorageProviderAgent.start, after register_with_broker: the four tasks are
\* created and, when start's caller suspends, each runs in creation order to
\* its first suspension: request_handler to its receive, contract_manager,
\* status_updater and dynamic_pricing through their first iteration
TasksCreated(p, P) ==
    PricingPass(StatusPass(p, SweepPass(
        [P EXCEPT !.start_pc = "started", !.reg_msg = NoMsg, !.reg_due = 0,
                  !.h_pc = "recv", !.h_due = 0])))

\* StorageProviderAgent.start up to the latency of the registration's send
StartProvider(p, P) ==
    LET P1 == [P EXCEPT !.running = TRUE]
    IN IF CanSend(Broker)
       THEN [P1 EXCEPT !.start_pc = "registering",
                       !.reg_msg = RegistrationOf(p, P1), !.reg_due = now + 1]
       ELSE TasksCreated(p, P1)

\* a stop() that leaves the running flag set
StopProviderKeepsRunning(P) == P

\* StorageProviderAgent.stop
StopProvider(P) ==
    [P EXCEPT !.running = FALSE, !.h_due = IF P.h_pc = "recv" THEN now + 1 ELSE @]

\* request_handler: receive_message returns a message; process_allocation_request
\* runs up to its processing sleep
ProviderReceive(p) ==
    /\ prov[p].h_pc = "recv"
    /\ mailboxes[p] # <<>>
    /\ LET msg == Head(mailboxes[p])
       IN /\ mailboxes' = [mailboxes EXCEPT ![p] = Tail(@)]
          /\ prov' = [prov EXCEPT ![p] =
                IF /\ msg.body.type = "allocation_request"
                   /\ {"contract", "request_id"} \subseteq DOMAIN msg.body
                THEN [@ EXCEPT !.requests_received = @ + 1, !.h_pc = "proc",
                               !.h_msg = msg, !.h_due = now + 1]
                ELSE [@ EXCEPT !.h_pc = LoopPc(prov[p].running), !.h_due = 0]]
    /\ UNCHANGED <<now, cfg, message_count, brk, buy, metrics, drv, req_count, sel, steps, late>>

\* request_handler: receive_message times out after stop and the loop ends
ProviderHandlerExit(p) ==
    /\ prov[p].h_pc = "recv"
    /\ ~prov[p].running
    /\ mailboxes[p] # <<>> \/ NextToEnd(p, "handler")
    /\ prov' = [prov EXCEPT ![p].h_pc = "done"]
    /\ UNCHANGED <<now, cfg, mailboxes, message_count, brk, buy, metrics, drv, req_count, sel, steps, late>>

\* process_allocation_request, accept branch
AcceptContract(P, contract_data) ==
    update_reputation(
        [P EXCEPT !.active_contracts =
                      DictPut(@, contract_data.contract_id, contract_data, ContractKey),
                  !.available_space_gb = @ - contract_data.space_gb,
                  !.requests_accepted = @ + 1,
                  !.total_earnings = @ + contract_data.total_cost],
        TRUE)

\* a rejection that resets the space ledger
RejectResettingSpace(P) ==
    update_reputation([P EXCEPT !.requests_rejected = @ + 1,
                                !.available_space_gb = P.total_space_gb], FALSE)

\* process_allocation_request, reject branch
RejectContract(P) == update_reputation([P EXCEPT !.requests_rejected = @ + 1], FALSE)

\* process_allocation_request from the end of the processing sleep to the
\* latency of the response's send
\* process_allocation_request, after the processing sleep: what
\* can_fulfill_request may return for contract_data['space_gb'] (the lookup
\* raises KeyError without that key, and nothing is drawn)
Allocatable(P, contract_data) ==
    IF "space_gb" \in DOMAIN contract_data
    THEN can_fulfill_request(P, contract_data.space_gb)
    ELSE {FALSE}

\* process_allocation_request: the decision raises, on the missing space_gb
\* or in StorageContract(**contract_data), and the except clause takes over
Raises(contract_data, can_allocate) ==
    \/ "space_gb" \notin DOMAIN contract_data
    \/ can_allocate /\ DOMAIN contract_data # ContractFields

\* a decision that takes the space before it builds the contract
DecidedSpaceFirst(P, contract_data, can_allocate) ==
    IF "space_gb" \notin DOMAIN contract_data THEN P
    ELSE IF can_allocate /\ DOMAIN contract_data # ContractFields
    THEN [P EXCEPT !.available_space_gb = @ - contract_data.space_gb]
    ELSE IF can_allocate THEN AcceptContract(P, contract_data)
    ELSE RejectContract(P)

\* process_allocation_request: the provider after the accept or the reject
\* branch, or as it was when the decision raised
Decided(P, contract_data, can_allocate) ==
    IF Raises(contract_data, can_allocate) THEN P
    ELSE IF can_allocate THEN AcceptContract(P, contract_data)
    ELSE RejectContract(P)

ProviderDecide(p) ==
    /\ Quiet
    /\ prov[p].h_pc = "proc"
    /\ LET msg == prov[p].h_msg
           contract_data == msg.body.contract
           space_needed == contract_data.space_gb
       IN \E can_allocate \in Allocatable(prov[p], contract_data) :
            LET P == Decided(prov[p], contract_data, can_allocate)
                response ==
                    IF can_allocate
                    THEN [type |-> "allocation_response", request_id |-> msg.body.request_id,
                          contract_id |-> contract_data.contract_id,
                          status |-> "accepted", provider_id |-> p]
                    ELSE [type |-> "allocation_response", request_id |-> msg.body.request_id,
                          status |-> "rejected",
                          reason |-> IF P.available_space_gb < space_needed
                                     THEN "insufficient_space" ELSE "provider_failure",
                          provider_id |-> p]
            IN /\ prov' = [prov EXCEPT ![p] =
                     IF ~Raises(contract_data, can_allocate) /\ CanSend(msg.from)
                     THEN [P EXCEPT !.h_pc = "send", !.h_out = response, !.h_due = now + 1]
                     ELSE [P EXCEPT !.h_pc = LoopPc(P.running), !.h_msg = NoMsg,
                                    !.h_due = 0]]
               /\ metrics' = IF can_allocate \/ Raises(contract_data, can_allocate)
                             THEN metrics
                             ELSE [metrics EXCEPT !.provider_failures = @ + 1]
    /\ UNCHANGED <<now, cfg, mailboxes, message_count, brk, buy, drv, req_count, sel, steps, late>>

\* the allocation_response is queued at the sender of the request
ProviderRespond(p) ==
    /\ Quiet
    /\ prov[p].h_pc = "send"
    /\ Enqueue(p, prov[p].h_msg.from, prov[p].h_out)
    /\ prov' = [prov EXCEPT ![p].h_pc = LoopPc(prov[p].running), ![p].h_msg = NoMsg,
                            ![p].h_out = NoMsg, ![p].h_due = 0]
    /\ UNCHANGED <<now, cfg, brk, buy, metrics, drv, req_count, sel, steps, late>>

\* contract_manager: one iteration of the loop, up to its sleep
ProviderSweep(p) ==
    /\ IF prov[p].running THEN Quiet ELSE Prompt /\ NextToEnd(p, "sweep")
    /\ prov[p].sweep_pc = "sleep"
    /\ now >= prov[p].sweep_wake
    /\ prov' = [prov EXCEPT ![p] =
            IF ~prov[p].running THEN [@ EXCEPT !.sweep_pc = "done"] ELSE SweepPass(@)]
    /\ UNCHANGED <<now, cfg, mailboxes, message_count, brk, buy, metrics, drv, req_count, sel, steps, late>>

\* status_updater: one iteration up to the latency of the send
ProviderStatusBegin(p) ==
    /\ IF prov[p].running THEN Quiet ELSE Prompt /\ NextToEnd(p, "status")
    /\ prov[p].status_pc = "sleep"
    /\ now >= prov[p].status_wake
    /\ prov' = [prov EXCEPT ![p] =
            IF ~prov[p].running THEN [@ EXCEPT !.status_pc = "done"]
            ELSE StatusPass(p, @)]
    /\ UNCHANGED <<now, cfg, mailboxes, message_count, brk, buy, metrics, drv, req_count, sel, steps, late>>

\* status_updater: the status is queued at the broker; the task sleeps
ProviderStatusSent(p) ==
    /\ Quiet
    /\ prov[p].status_pc = "send"
    /\ Enqueue(p, Broker, prov[p].status_msg)
    /\ prov' = [prov EXCEPT ![p].status_pc = "sleep", ![p].status_msg = NoMsg,
                            ![p].status_wake = now + StatusInterval]
    /\ UNCHANGED <<now, cfg, brk, buy, metrics, drv, req_count, sel, steps, late>>

\* dynamic_pricing: one iteration of the loop, up to its sleep
ProviderPricing(p) ==
    /\ IF prov[p].running THEN Quiet ELSE Prompt /\ NextToEnd(p, "pricing")
    /\ prov[p].pricing_pc = "sleep"
    /\ now >= prov[p].pricing_wake
    /\ prov' = [prov EXCEPT ![p] =
            IF ~prov[p].running THEN [@ EXCEPT !.pricing_pc = "done"]
            ELSE PricingPass(@)]
    /\ UNCHANGED <<now, cfg, mailboxes, message_count, brk, buy, metrics, drv, req_count, sel, steps, late>>

\* no task of provider p is past the time at which it must have run
ProviderOnTime(p) ==
    LET P == prov[p]
    IN /\ P.start_pc = "registering" => P.reg_due > now
       /\ P.h_pc \in {"proc", "send"} => P.h_due > now
       /\ P.h_pc = "recv" => mailboxes[p] = <<>> /\ (~P.running => P.h_due > now)
       /\ P.sweep_pc = "sleep" => P.sweep_wake > now
       /\ P.status_pc \in {"sleep", "send"} => P.status_wake > now
       /\ P.pricing_pc = "sleep" => P.pricing_wake > now


---------------------------------------------------------------------------
(* Broker *)

PendingKey == "request_id"

\* IntermediaryNetworkAgent.__init__
NewBroker(corruption_probability) ==
    [running |-> FALSE,
     providers |-> <<>>,
     info |-> [p \in Providers |-> NoMsg],
     provider_last_seen |-> [p \in {} |-> 0],
     pending_allocations |-> <<>>,
     corruption_probability |-> corruption_probability,
     requests_processed |-> 0, successful_allocations |-> 0, failed_allocations |-> 0,
     corrupted_contracts |-> 0, active_providers |-> 0, total_providers_registered |-> 0,
     h_pc |-> "off", h_out |-> NoMsg, h_to |-> Broker, h_cont |-> "none",
     h_rid |-> <<>>, h_due |-> 0,
     mgr_pc |-> "off", mgr_wake |-> 0]

\* self.provider_last_seen.get(provider.agent_id, 0)
LastSeen(B, p) == IF p \in DOMAIN B.provider_last_seen THEN B.provider_last_seen[p] ELSE 0

\* a candidate test that leaves the space test out: OversizedFailed tells it
\* from Suitable
SuitableWithoutSpace(B, p, request, current_time) ==
    /\ B.info[p].price_per_gb_hour <= request.max_price_per_gb_hour
    /\ B.info[p].reputation >= RepFloor
    /\ current_time - LastSeen(B, p) < FreshnessWindow

\* select_provider: the test a provider must pass to be a candidate
Suitable(B, p, request, current_time) ==
    /\ B.info[p].available_space_gb >= request.space_gb
    /\ B.info[p].price_per_gb_hour <= request.max_price_per_gb_hour
    /\ B.info[p].reputation >= RepFloor
    /\ current_time - LastSeen(B, p) < FreshnessWindow

\* select_provider: suitable_providers, in the order of self.providers.values()
SuitableProviders(B, request, current_time) ==
    SelectSeq(B.providers, LAMBDA p : Suitable(B, p, request, current_time))

\* calculate_score(x) - calculate_score(y), times the positive number
\* 10 * RepMax * max_price * total_x * total_y * attempts_x * attempts_y.
\* Each term starts with its difference, which is 0 when x and y agree in it.
ScoreDifference(x, y, max_price) ==
    LET ax == Max2(x.success_count + x.failure_count, 1)
        ay == Max2(y.success_count + y.failure_count, 1)
        T == x.total_space_gb * y.total_space_gb
        A == ax * ay
    IN   (x.reputation - y.reputation) * 4 * max_price * T * A
       + (y.price_per_gb_hour - x.price_per_gb_hour) * 3 * RepMax * T * A
       + (x.available_space_gb * y.total_space_gb
            - y.available_space_gb * x.total_space_gb) * 2 * RepMax * max_price * A
       + (x.success_count * ay - y.success_count * ax) * RepMax * max_price * T

\* suitable_providers.sort(key=calculate_score, reverse=True)[0]: the sort is
\* stable, so of the candidates with the highest score the first one in the
\* order of the list is returned
FirstBest(B, cands, max_price) ==
    cands[CHOOSE i \in 1..Len(cands) :
            /\ \A j \in 1..Len(cands) :
                   ScoreDifference(B.info[cands[i]], B.info[cands[j]], max_price) >= 0
            /\ \A j \in 1..(i - 1) :
                   ScoreDifference(B.info[cands[j]], B.info[cands[i]], max_price) < 0]

\* IntermediaryNetworkAgent.select_provider: a provider id or "None".
\* calculate_score divides by max_price and by total_space_gb: a zero there
\* raises ZeroDivisionError, which the except clause turns into None.
select_provider(B, request, current_time) ==
    LET cands == SuitableProviders(B, request, current_time)
    IN IF cands = <<>> THEN "None"
       ELSE IF request.max_price_per_gb_hour = 0 THEN "None"
       ELSE IF \E i \in 1..Len(cands) : B.info[cands[i]].total_space_gb = 0 THEN "None"
       ELSE FirstBest(B, cands, request.max_price_per_gb_hour)

\* self.providers[agent_id] = provider_info; the key keeps its place if present
ProvidersPut(ids, p) == IF \E i \in 1..Len(ids) : ids[i] = p THEN ids ELSE Append(ids, p)

InProviders(B, p) == \E i \in 1..Len(B.providers) : B.providers[i] = p

\* IntermediaryNetworkAgent.handle_provider_registration
handle_provider_registration(B, provider_info) ==
    LET p == provider_info.agent_id
        ids == ProvidersPut(B.providers, p)
        info == [B.info EXCEPT ![p] = provider_info]
    IN [B EXCEPT !.providers = ids,
                 !.info = info,
                 !.provider_last_seen =
                     [q \in DOMAIN B.provider_last_seen \cup {p} |->
                         IF q = p THEN now ELSE B.provider_last_seen[q]],
                 !.total_providers_registered =
                     IF p \notin {info[ids[i]].agent_id : i \in 1..Len(ids)}
                     THEN @ + 1 ELSE @,
                 !.active_providers = Len(ids)]

\* a status handler that keeps the broker's own reputation estimate:
\* PushOverwritesCache tells it from handle_status_update
StatusKeepsReputation(B, status) ==
    LET p == status.provider_id
    IN IF InProviders(B, p)
       THEN [B EXCEPT !.info[p].available_space_gb = status.available_space_gb,
                      !.info[p].price_per_gb_hour = status.price_per_gb_hour,
                      !.provider_last_seen =
                          [q \in DOMAIN B.provider_last_seen \cup {p} |->
                              IF q = p THEN now ELSE B.provider_last_seen[q]]]
       ELSE B

\* a status handler that takes in a provider it does not know
StatusRegisters(B, status) ==
    LET p == status.provider_id
    IN [B EXCEPT !.providers = ProvidersPut(@, p),
                 !.info[p].available_space_gb = status.available_space_gb,
                 !.info[p].reputation = status.reputation,
                 !.info[p].price_per_gb_hour = status.price_per_gb_hour,
                 !.provider_last_seen =
                     [q \in DOMAIN B.provider_last_seen \cup {p} |->
                         IF q = p THEN now ELSE B.provider_last_seen[q]]]

\* IntermediaryNetworkAgent.handle_status_update
handle_status_update(B, status) ==
    LET p == status.provider_id
    IN IF "provider_id" \notin DOMAIN status THEN B
       ELSE IF ~InProviders(B, p) THEN B
       ELSE IF "available_space_gb" \notin DOMAIN status THEN B
       ELSE IF "reputation" \notin DOMAIN status
       THEN [B EXCEPT !.info[p].available_space_gb = status.available_space_gb]
       ELSE IF "price_per_gb_hour" \notin DOMAIN status
       THEN [B EXCEPT !.info[p].available_space_gb = status.available_space_gb,
                      !.info[p].reputation = status.reputation]
       ELSE [B EXCEPT !.info[p].available_space_gb = status.available_space_gb,
                      !.info[p].reputation = status.reputation,
                      !.info[p].price_per_gb_hour = status.price_per_gb_hour,
                      !.provider_last_seen =
                          [q \in DOMAIN B.provider_last_seen \cup {p} |->
                              IF q = p THEN now ELSE B.provider_last_seen[q]]]

\* handle_storage_request: the pending contract built for the selected provider
PendingContract(B, request, p, rand) ==
    StorageContract(<<now, rand>>, request.buyer_id, p, request.space_gb,
                    request.duration_hours, B.info[p].price_per_gb_hour,
                    CostOf(request.space_gb, request.duration_hours,
                           B.info[p].price_per_gb_hour),
                    now, now + request.duration_hours, "pending")

\* a relayed contract that keeps the status pending: RelayFollowsProvider
\* tells it from RelayedContract
RelayedStillPending(B, response, request, p) ==
    StorageContract(response.contract_id, request.buyer_id, p, request.space_gb,
                    request.duration_hours, B.info[p].price_per_gb_hour,
                    CostOf(request.space_gb, request.duration_hours,
                           B.info[p].price_per_gb_hour),
                    now, now + request.duration_hours, "pending")

\* handle_allocation_response: the contract relayed to the buyer
RelayedContract(B, response, request, p) ==
    StorageContract(response.contract_id, request.buyer_id, p, request.space_gb,
                    request.duration_hours, B.info[p].price_per_gb_hour,
                    CostOf(request.space_gb, request.duration_hours,
                           B.info[p].price_per_gb_hour),
                    now, now + request.duration_hours, "active")

\* handle_allocation_response: the broker's own reputation estimate
Nudge(B, p, accepted) ==
    IF ~InProviders(B, p) THEN B
    ELSE IF accepted
    THEN [B EXCEPT !.info[p].success_count = @ + 1,
                   !.info[p].reputation = Min2((@ * 101) \div 100, RepMax)]
    ELSE [B EXCEPT !.info[p].failure_count = @ + 1,
                   !.info[p].reputation = Max2((@ * 99) \div 100, RepMin)]

\* a draw that never succeeds: CorruptionKeepsReservation tells it from Draw
DrawNever(probability) == {FALSE}

\* the outcomes of random.random() < probability
Draw(probability) ==
    IF probability = 0 THEN {FALSE} ELSE IF probability = 100 THEN {TRUE} ELSE {TRUE, FALSE}

FailureResponse(request_id, reason) ==
    [type |-> "storage_response",
     response |-> [request_id |-> request_id, status |-> "failure", reason |-> reason]]

\* the broker's handler starts a send_message: an unknown recipient returns at
\* once and the code after the send runs in the same step
BrokerSend(B, to, body, cont, rid) ==
    [B EXCEPT !.h_pc = "send", !.h_out = body, !.h_to = to, !.h_cont = cont,
              !.h_rid = rid, !.h_due = now + 1]

\* a handler that keeps the pending-allocation entry after the relay:
\* RelayedOnce tells it from AfterSend
AfterSendKeepsEntry(B) ==
    LET C == [B EXCEPT !.h_pc = LoopPc(B.running), !.h_out = NoMsg, !.h_to = Broker,
                       !.h_cont = "none", !.h_rid = <<>>, !.h_due = 0]
    IN IF B.h_cont = "nosuit" THEN [C EXCEPT !.failed_allocations = @ + 1] ELSE C

\* the code of a handler that follows its send_message
AfterSend(B) ==
    LET C == [B EXCEPT !.h_pc = LoopPc(B.running), !.h_out = NoMsg, !.h_to = Broker,
                       !.h_cont = "none", !.h_rid = <<>>, !.h_due = 0]
    IN IF B.h_cont = "nosuit" THEN [C EXCEPT !.failed_allocations = @ + 1]
       ELSE IF B.h_cont = "relay"
       THEN [C EXCEPT !.pending_allocations = DictDel(@, B.h_rid, PendingKey)]
       ELSE C

\* a pass that removes a provider as soon as it is no longer fresh:
\* StaleKeptUnselected tells it from Inactive
InactiveFromThirty(B) == {p \in DOMAIN B.provider_last_seen :
                              now - B.provider_last_seen[p] >= FreshnessWindow}

\* provider_manager: the providers one pass removes
Inactive(B) == {p \in DOMAIN B.provider_last_seen :
                    now - B.provider_last_seen[p] > EvictionTimeout}

\* provider_manager: one pass, then the sleep
ManagerPass(B) ==
    LET ids == SelectSeq(B.providers, LAMBDA p : p \notin Inactive(B))
    IN [B EXCEPT !.providers = ids,
                 !.provider_last_seen =
                     [q \in DOMAIN B.provider_last_seen \ Inactive(B) |->
                         B.provider_last_seen[q]],
                 !.active_providers = Len(ids),
                 !.mgr_pc = "sleep",
                 !.mgr_wake = now + ManagerInterval]

\* IntermediaryNetworkAgent.start: the two tasks are created and, when the
\* caller suspends, message_handler runs to its receive and provider_manager
\* through its first iteration
StartBroker(B) ==
    ManagerPass([B EXCEPT !.running = TRUE, !.h_pc = "recv", !.h_due = 0])

\* IntermediaryNetworkAgent.stop
StopBroker(B) ==
    [B EXCEPT !.running = FALSE, !.h_due = IF B.h_pc = "recv" THEN now + 1 ELSE @]

\* message_handler: receive_message times out after stop and the loop ends
BrokerHandlerExit ==
    /\ brk.h_pc = "recv"
    /\ ~brk.running
    /\ mailboxes[Broker] # <<>> \/ NextToEnd(Broker, "handler")
    /\ brk' = [brk EXCEPT !.h_pc = "done"]
    /\ UNCHANGED <<now, cfg, mailboxes, message_count, prov, buy, metrics, drv, req_count, sel, steps, late>>

\* a handler that counts the request and answers nothing: RequestAnswered
\* tells it from handle_storage_request
StorageRequestDropped(B, msg, rand) == [B EXCEPT !.requests_processed = @ + 1]

\* handle_storage_request up to the latency of its send
\* handle_storage_request: StorageRequest(**msg['body']['request']) does not
\* raise
ValidRequest(body) ==
    /\ "request" \in DOMAIN body
    /\ DOMAIN body.request = RequestFields

handle_storage_request(B, msg, rand) ==
    LET request == msg.body.request
        buyer_id == msg.from
        B1 == [B EXCEPT !.requests_processed = @ + 1]
        selected == select_provider(B1, request, now)
    IN IF ~ValidRequest(msg.body) THEN B
       ELSE IF selected # "None"
       THEN LET contract == PendingContract(B1, request, selected, rand)
                B2 == [B1 EXCEPT !.pending_allocations =
                          DictPut(@, request.request_id,
                                  [request_id |-> request.request_id, buyer_id |-> buyer_id,
                                   request |-> request, provider |-> selected],
                                  PendingKey)]
                body == [type |-> "allocation_request", request_id |-> request.request_id,
                         contract |-> contract]
            IN IF CanSend(selected) THEN BrokerSend(B2, selected, body, "forward", <<>>)
               ELSE B2
       ELSE LET body == FailureResponse(request.request_id, "no_suitable_provider")
            IN IF CanSend(buyer_id) THEN BrokerSend(B1, buyer_id, body, "nosuit", <<>>)
               ELSE [B1 EXCEPT !.failed_allocations = @ + 1]

\* handle_allocation_response up to the latency of its send
handle_allocation_response(B, msg, corrupted) ==
    LET response == msg.body
        request_id == response.request_id
    IN IF ~DictHas(B.pending_allocations, request_id, PendingKey) THEN B
       ELSE
        LET entry == DictGet(B.pending_allocations, request_id, PendingKey)
            accepted == response.status = "accepted"
            B1 == Nudge(B, entry.provider, accepted)
            B2 == IF accepted
                  THEN [B1 EXCEPT !.corrupted_contracts = IF corrupted THEN @ + 1 ELSE @,
                                  !.successful_allocations = @ + 1]
                  ELSE [B1 EXCEPT !.failed_allocations = @ + 1]
            final_response ==
                IF accepted /\ corrupted
                THEN FailureResponse(request_id, "network_corruption")
                ELSE IF accepted
                THEN [type |-> "storage_response",
                      response |-> [request_id |-> request_id, status |-> "success",
                                    contract |-> RelayedContract(B1, response, entry.request,
                                                                 entry.provider)]]
                ELSE FailureResponse(request_id, response.reason)
        IN IF CanSend(entry.buyer_id)
           THEN BrokerSend(B2, entry.buyer_id, final_response, "relay", request_id)
           ELSE [B2 EXCEPT !.pending_allocations = DictDel(@, request_id, PendingKey)]

\* message_handler: receive_message returns a message; process_message runs
\* the handler of its type up to the handler's send
BrokerReceive ==
    /\ brk.h_pc = "recv"
    /\ mailboxes[Broker] # <<>>
    /\ LET msg == Head(mailboxes[Broker])
           type == msg.body.type
       IN /\ mailboxes' = [mailboxes EXCEPT ![Broker] = Tail(@)]
          /\ \E rand \in cfg.contract_rands, corrupted \in Draw(brk.corruption_probability) :
               LET B == IF type = "provider_registration"
                        THEN handle_provider_registration(brk, msg.body.provider_info)
                        ELSE IF type = "storage_request"
                        THEN handle_storage_request(brk, msg, rand)
                        ELSE IF type = "allocation_response"
                        THEN handle_allocation_response(brk, msg, corrupted)
                        ELSE IF type = "status_update"
                        THEN handle_status_update(brk, msg.body)
                        ELSE brk
               IN /\ brk' = IF B.h_pc = "send" THEN B
                            ELSE [B EXCEPT !.h_pc = LoopPc(brk.running), !.h_due = 0]
                  /\ metrics' =
                       IF /\ type = "allocation_response"
                          /\ DictHas(brk.pending_allocations, msg.body.request_id, PendingKey)
                          /\ msg.body.status = "accepted"
                          /\ corrupted
                       THEN [metrics EXCEPT !.network_corruptions = @ + 1]
                       ELSE metrics
    /\ UNCHANGED <<now, cfg, message_count, prov, buy, drv, req_count, sel, steps, late>>

\* the handler's message is queued and the rest of the handler runs
BrokerSendDone ==
    /\ Quiet
    /\ brk.h_pc = "send"
    /\ Enqueue(Broker, brk.h_to, brk.h_out)
    /\ brk' = AfterSend(brk)
    /\ UNCHANGED <<now, cfg, prov, buy, metrics, drv, req_count, sel, steps, late>>

\* provider_manager: one iteration of the loop, up to its sleep
BrokerManager ==
    /\ IF brk.running THEN Quiet ELSE Prompt /\ NextToEnd(Broker, "manager")
    /\ brk.mgr_pc = "sleep"
    /\ now >= brk.mgr_wake
    /\ brk' = IF ~brk.running THEN [brk EXCEPT !.mgr_pc = "done"] ELSE ManagerPass(brk)
    /\ UNCHANGED <<now, cfg, mailboxes, message_count, prov, buy, metrics, drv, req_count, sel, steps, late>>

\* no task of the broker is past the time at which it must have run
BrokerOnTime ==
    /\ brk.h_pc = "send" => brk.h_due > now
    /\ brk.h_pc = "recv" => mailboxes[Broker] = <<>> /\ (~brk.running => brk.h_due > now)
    /\ brk.mgr_pc = "sleep" => brk.mgr_wake > now


---------------------------------------------------------------------------
(* Metrics aggregator *)

\* SimulationMetrics.reset: the counters
NewMetrics ==
    [total_requests |-> 0, successful_requests |-> 0, failed_requests |-> 0,
     contracts_created |-> 0, contracts_completed |-> 0,
     network_corruptions |-> 0, provider_failures |-> 0]

\* SimulationMetrics.record_request
record_request(M, successful) ==
    IF successful
    THEN [M EXCEPT !.total_requests = @ + 1, !.successful_requests = @ + 1]
    ELSE [M EXCEPT !.total_requests = @ + 1, !.failed_requests = @ + 1]

\* SimulationMetrics.record_contract
record_contract(M, contract, completed) ==
    IF contract.status = "active" THEN [M EXCEPT !.contracts_created = @ + 1]
    ELSE IF completed THEN [M EXCEPT !.contracts_completed = @ + 1]
    ELSE M

---------------------------------------------------------------------------
(* Buyer *)

\* BuyerAgent.__init__
NewBuyer ==
    [running |-> FALSE,
     pending_requests |-> <<>>, active_contracts |-> <<>>, completed_contracts |-> <<>>,
     requests_sent |-> 0, requests_successful |-> 0, requests_failed |-> 0,
     total_spent |-> 0, total_storage_used |-> 0, contracts_completed |-> 0,
     req_pc |-> "off", req_msg |-> NoMsg, req_wake |-> 0, req_late |-> 0,
     h_pc |-> "off", h_due |-> 0,
     trackers |-> <<>>]

\* request_behavior: one iteration up to the latency of the send (an unknown
\* recipient makes send_message return at once, and the task sleeps)
RequestPass(b, Y, space_needed, duration, max_price, rand) ==
    LET request_id == <<b, now, rand>>
        request == StorageRequest(b, space_needed, duration, max_price, now, request_id)
        pending == DictPut(Y.pending_requests, request_id, request, RequestKey)
    IN IF CanSend(Broker)
       THEN [Y EXCEPT !.pending_requests = pending, !.req_pc = "send",
                      !.req_msg = [type |-> "storage_request", request |-> request],
                      !.req_wake = now + 1, !.req_late = 0]
       ELSE [Y EXCEPT !.pending_requests = pending, !.req_pc = "sleep",
                      !.req_wake = now + RequestInterval[1],
                      !.req_late = now + RequestInterval[2]]

\* BuyerAgent.start: the two tasks are created and, when the caller suspends,
\* response_handler runs to its receive and request_behavior starts
StartBuyer(Y) ==
    [Y EXCEPT !.running = TRUE, !.h_pc = "recv", !.h_due = 0,
              !.req_pc = "sleep", !.req_wake = now, !.req_late = now]

\* a stop that gives the pending requests up: PendingKept tells it from
\* StopBuyer
StopBuyerDropsPending(Y) ==
    [Y EXCEPT !.running = FALSE, !.h_due = IF Y.h_pc = "recv" THEN now + 1 ELSE @,
              !.pending_requests = <<>>]

\* BuyerAgent.stop
StopBuyer(Y) ==
    [Y EXCEPT !.running = FALSE, !.h_due = IF Y.h_pc = "recv" THEN now + 1 ELSE @]

\* request_behavior: a later iteration of the loop, after its sleep
BuyerRequest(b) ==
    /\ IF buy[b].running THEN Quiet ELSE Prompt /\ NextToEnd(b, "request")
    /\ buy[b].req_pc = "sleep"
    /\ now >= buy[b].req_wake
    /\ IF ~buy[b].running
       THEN /\ buy' = [buy EXCEPT ![b].req_pc = "done"]
            /\ UNCHANGED req_count
       ELSE /\ req_count < cfg.max_requests
            /\ req_count' = req_count + 1
            /\ \E space_needed \in cfg.spaces, duration \in cfg.durations,
                  max_price \in cfg.max_prices, rand \in cfg.request_rands :
                 buy' = [buy EXCEPT ![b] =
                            RequestPass(b, @, space_needed, duration, max_price, rand)]
    /\ UNCHANGED <<now, cfg, mailboxes, message_count, prov, brk, metrics, drv, sel, steps, late>>

\* request_behavior: the request is queued at the broker; the task sleeps
BuyerRequestSent(b) ==
    /\ Quiet
    /\ buy[b].req_pc = "send"
    /\ Enqueue(b, Broker, buy[b].req_msg)
    /\ buy' = [buy EXCEPT ![b].requests_sent = @ + 1, ![b].req_pc = "sleep",
                          ![b].req_msg = NoMsg, ![b].req_wake = now + RequestInterval[1],
                          ![b].req_late = now + RequestInterval[2]]
    /\ metrics' = record_request(metrics, FALSE)
    /\ UNCHANGED <<now, cfg, prov, brk, drv, req_count, sel, steps, late>>

\* a process_response that does not look the request up: ResponseCountedOnce
\* tells it from process_response
ProcessWithoutLookup(Y, msg) ==
    IF msg.body.type # "storage_response" THEN Y
    ELSE LET response == msg.body.response
             request_id == response.request_id
         IN IF response.status = "success"
            THEN [Y EXCEPT !.active_contracts =
                               DictPut(@, response.contract.contract_id, response.contract,
                                       ContractKey),
                           !.requests_successful = @ + 1,
                           !.total_spent = @ + response.contract.total_cost,
                           !.total_storage_used = @ + response.contract.space_gb,
                           !.trackers = Append(@, response.contract),
                           !.pending_requests = DictDel(@, request_id, RequestKey)]
            ELSE [Y EXCEPT !.requests_failed = @ + 1,
                           !.pending_requests = DictDel(@, request_id, RequestKey)]

\* BuyerAgent.process_response
process_response(Y, msg) ==
    IF msg.body.type # "storage_response" THEN Y
    ELSE LET response == msg.body.response
             request_id == response.request_id
         IN IF ~DictHas(Y.pending_requests, request_id, RequestKey) THEN Y
            ELSE IF response.status = "success"
            THEN [Y EXCEPT !.active_contracts =
                               DictPut(@, response.contract.contract_id, response.contract,
                                       ContractKey),
                           !.requests_successful = @ + 1,
                           !.total_spent = @ + response.contract.total_cost,
                           !.total_storage_used = @ + response.contract.space_gb,
                           !.trackers = Append(@, response.contract),
                           !.pending_requests = DictDel(@, request_id, RequestKey)]
            ELSE [Y EXCEPT !.requests_failed = @ + 1,
                           !.pending_requests = DictDel(@, request_id, RequestKey)]

\* process_response: what it records in global_metrics
ResponseMetrics(M, Y, msg) ==
    IF msg.body.type # "storage_response" THEN M
    ELSE IF ~DictHas(Y.pending_requests, msg.body.response.request_id, RequestKey) THEN M
    ELSE IF msg.body.response.status = "success"
    THEN record_contract(record_request(M, TRUE), msg.body.response.contract, FALSE)
    ELSE record_request(M, FALSE)

\* response_handler: receive_message returns a message; process_response runs
BuyerReceive(b) ==
    /\ buy[b].h_pc = "recv"
    /\ mailboxes[b] # <<>>
    /\ LET msg == Head(mailboxes[b])
       IN /\ mailboxes' = [mailboxes EXCEPT ![b] = Tail(@)]
          /\ buy' = [buy EXCEPT ![b] =
                [process_response(@, msg) EXCEPT !.h_pc = LoopPc(buy[b].running),
                                                 !.h_due = 0]]
          /\ metrics' = ResponseMetrics(metrics, buy[b], msg)
    /\ UNCHANGED <<now, cfg, message_count, prov, brk, drv, req_count, sel, steps, late>>

\* response_handler: receive_message times out after stop and the loop ends
BuyerHandlerExit(b) ==
    /\ buy[b].h_pc = "recv"
    /\ ~buy[b].running
    /\ mailboxes[b] # <<>> \/ NextToEnd(b, "handler")
    /\ buy' = [buy EXCEPT ![b].h_pc = "done"]
    /\ UNCHANGED <<now, cfg, mailboxes, message_count, prov, brk, metrics, drv, req_count, sel, steps, late>>

\* s without its i-th element
RemoveAt(s, i) == [j \in 1..(Len(s) - 1) |-> IF j < i THEN s[j] ELSE s[j + 1]]

\* track_contract_completion, after its sleep until the contract's end_time
BuyerTrack(b) ==
    /\ Quiet
    /\ \E i \in 1..Len(buy[b].trackers) :
         LET contract == buy[b].trackers[i]
             held == DictHas(buy[b].active_contracts, contract.contract_id, ContractKey)
         IN /\ now >= contract.end_time
            /\ buy' = [buy EXCEPT ![b] =
                  IF held
                  THEN [@ EXCEPT !.trackers = RemoveAt(@, i),
                                 !.active_contracts =
                                     DictDel(@, contract.contract_id, ContractKey),
                                 !.completed_contracts = Append(@, contract),
                                 !.contracts_completed = @ + 1]
                  ELSE [@ EXCEPT !.trackers = RemoveAt(@, i)]]
            /\ metrics' = IF held THEN record_contract(metrics, contract, TRUE) ELSE metrics
    /\ UNCHANGED <<now, cfg, mailboxes, message_count, prov, brk, drv, req_count, sel, steps, late>>

\* no task of buyer b is past the time at which it must have run
BuyerOnTime(b) ==
    LET Y == buy[b]
    IN /\ Y.req_pc = "send" => Y.req_wake > now
       /\ Y.req_pc = "sleep" /\ (req_count < cfg.max_requests \/ ~Y.running)
            => Y.req_late > now
       /\ Y.h_pc = "recv" => mailboxes[b] = <<>> /\ (~Y.running => Y.h_due > now)
       /\ \A i \in 1..Len(Y.trackers) : Y.trackers[i].end_time > now

---------------------------------------------------------------------------
(* The driver: run_single_simulation *)

\* the driver goes on after the staggered-startup sleep that follows agent i
AfterStagger(kind, i) ==
    IF kind = "provider" /\ i < Len(cfg.providers)
    THEN [pc |-> "start_provider", i |-> i + 1, wake |-> now]
    ELSE IF kind = "provider" /\ Len(cfg.buyers) > 0
    THEN [pc |-> "start_buyer", i |-> 1, wake |-> now]
    ELSE IF kind = "buyer" /\ i < Len(cfg.buyers)
    THEN [pc |-> "start_buyer", i |-> i + 1, wake |-> now]
    ELSE [pc |-> "run", i |-> 0, wake |-> now + cfg.duration]

\* the driver's sleep after the last provider's start and before the first
\* buyer's: 0.5 s in run_single_simulation, cfg.buyer_delay seconds at most
\* where a scenario starts its buyer at any time after the registration
BuyersDelayed ==
    drv.pc = "stagger_provider" /\ drv.i = Len(cfg.providers) /\ cfg.buyer_delay > 1

\* network = IntermediaryNetworkAgent(...); await network.start()
DriverStartNetwork ==
    /\ drv.pc = "start_network"
    /\ brk' = StartBroker(brk)
    /\ drv' = IF Len(cfg.providers) > 0
              THEN [pc |-> "start_provider", i |-> 1, wake |-> now]
              ELSE AfterStagger("provider", 0)
    /\ UNCHANGED <<now, cfg, mailboxes, message_count, prov, buy, metrics, req_count, sel, steps, late>>

\* await provider.start(), up to the latency of the registration's send
DriverStartProvider ==
    /\ drv.pc = "start_provider"
    /\ LET p == cfg.providers[drv.i]
       IN /\ prov' = [prov EXCEPT ![p] = StartProvider(p, @)]
          /\ drv' = IF prov'[p].start_pc = "registering"
                    THEN [drv EXCEPT !.pc = "registering"]
                    ELSE [drv EXCEPT !.pc = "stagger_provider",
                                     !.wake = IF drv.i = Len(cfg.providers)
                                              THEN now + cfg.buyer_delay ELSE now + 1]
    /\ UNCHANGED <<now, cfg, mailboxes, message_count, brk, buy, metrics, req_count, sel, steps, late>>

\* the registration is queued at the broker, start creates the tasks and
\* returns, and the driver sleeps 0.5 s
ProviderRegistered(p) ==
    /\ Quiet
    /\ prov[p].start_pc = "registering"
    /\ Enqueue(p, Broker, prov[p].reg_msg)
    /\ prov' = [prov EXCEPT ![p] = TasksCreated(p, @)]
    /\ drv' = [drv EXCEPT !.pc = "stagger_provider",
                          !.wake = IF drv.i = Len(cfg.providers)
                                   THEN now + cfg.buyer_delay ELSE now + 1]
    /\ UNCHANGED <<now, cfg, brk, buy, metrics, req_count, sel, steps, late>>

\* await buyer.start(); then the driver sleeps 0.5 s, and the buyer's
\* request_behavior runs its first iteration
DriverStartBuyer ==
    /\ drv.pc = "start_buyer"
    /\ LET b == cfg.buyers[drv.i]
       IN IF req_count < cfg.max_requests
          THEN /\ req_count' = req_count + 1
               /\ \E space_needed \in cfg.spaces, duration \in cfg.durations,
                     max_price \in cfg.max_prices, rand \in cfg.request_rands :
                    buy' = [buy EXCEPT ![b] =
                               RequestPass(b, StartBuyer(@), space_needed, duration,
                                           max_price, rand)]
          ELSE /\ buy' = [buy EXCEPT ![b] = StartBuyer(@)]
               /\ UNCHANGED req_count
    /\ drv' = [drv EXCEPT !.pc = "stagger_buyer", !.wake = now + 1]
    /\ UNCHANGED <<now, cfg, mailboxes, message_count, prov, brk, metrics, sel, steps, late>>

\* the end of a staggered-startup sleep
DriverStaggered ==
    /\ Quiet
    /\ drv.pc \in {"stagger_provider", "stagger_buyer"}
    /\ drv' = AfterStagger(IF drv.pc = "stagger_provider" THEN "provider" ELSE "buyer",
                           drv.i)
    /\ UNCHANGED <<now, cfg, mailboxes, message_count, prov, brk, buy, metrics, req_count, sel, steps, late>>

\* after asyncio.sleep(duration): for agent in [network] + providers + buyers:
\* await agent.stop(); no stop suspends, so all of them run in one step
DriverStop ==
    /\ Quiet
    /\ drv.pc = "run"
    /\ now >= drv.wake
    /\ brk' = StopBroker(brk)
    /\ prov' = [p \in Providers |->
                   IF p \in Range(cfg.providers) THEN StopProvider(prov[p]) ELSE prov[p]]
    /\ buy' = [b \in Buyers |->
                   IF b \in Range(cfg.buyers) THEN StopBuyer(buy[b]) ELSE buy[b]]
    /\ drv' = [pc |-> "final", i |-> 0, wake |-> now + FinalWait]
    /\ UNCHANGED <<now, cfg, mailboxes, message_count, metrics, req_count, sel, steps, late>>

\* after the wait for final processing the driver reads the metrics
DriverEnd ==
    /\ Quiet
    /\ drv.pc = "final"
    /\ now >= drv.wake
    /\ drv' = [drv EXCEPT !.pc = "done"]
    /\ UNCHANGED <<now, cfg, mailboxes, message_count, prov, brk, buy, metrics, req_count, sel, steps, late>>

\* the driver is not past the time at which it must have run
DriverOnTime ==
    /\ drv.pc \notin {"start_network", "start_provider", "start_buyer"}
    /\ drv.pc \in {"stagger_provider", "stagger_buyer", "run", "final"} => drv.wake > now

---------------------------------------------------------------------------
(* The run *)

\* the sleeps shorter than a second (latency, processing time, staggered
\* startup) that are in progress
Sleeping ==
    Cardinality({p \in Providers : prov[p].start_pc = "registering"})
    + Cardinality({p \in Providers : prov[p].h_pc \in {"proc", "send"}})
    + Cardinality({p \in Providers : prov[p].status_pc = "send"})
    + Cardinality({b \in Buyers : buy[b].req_pc = "send"})
    + (IF brk.h_pc = "send" THEN 1 ELSE 0)
    + (IF drv.pc \in {"stagger_provider", "stagger_buyer"} /\ ~BuyersDelayed THEN 1 ELSE 0)

\* the clock advances by one second once every task due by now has run; a
\* sleep shorter than a second that is in progress ends in the next second
Tick ==
    /\ now < cfg.horizon
    /\ late + Sleeping <= MaxLate
    /\ late' = late + Sleeping
    /\ DriverOnTime
    /\ \A p \in Providers : ProviderOnTime(p)
    /\ BrokerOnTime
    /\ \A b \in Buyers : BuyerOnTime(b)
    /\ now' = now + 1
    /\ UNCHANGED <<cfg, mailboxes, message_count, prov, brk, buy, metrics, drv, req_count, sel, steps>>

NoProbe ==
    [request |-> NoMsg, at |-> 0, registry |-> NoMsg, result |-> "None",
     swapped |-> "None", done |-> FALSE]

\* the state after the bus and the agents are constructed, with the given
\* provider objects
ConstructedWith(c, providers, corrp) ==
    /\ now = Epoch
    /\ cfg = c
    /\ mailboxes = [a \in {Broker} \cup Range(c.providers) \cup Range(c.buyers) |-> <<>>]
    /\ message_count = 0
    /\ prov = providers
    /\ brk = NewBroker(corrp)
    /\ buy = [b \in Buyers |-> NewBuyer]
    /\ metrics = NewMetrics
    /\ drv = [pc |-> "start_network", i |-> 0, wake |-> Epoch]
    /\ req_count = 0
    /\ late = 0
    /\ sel = NoProbe
    /\ steps = 0

\* the state after the driver constructed the bus and the agents
Constructed(c, total, base, failp, corrp) ==
    ConstructedWith(c, [p \in Providers |-> NewProvider(total, base, failp)], corrp)

\* run_single_simulation for RunDuration seconds: one provider of 10 GB at
\* 0.50 $ that fails some requests, two buyers that ask for 5 or 6 GB for 2 s
Init ==
    Constructed([providers |-> <<"provider0">>, buyers |-> <<"buyer0", "buyer1">>,
                 spaces |-> {5, 6}, durations |-> {2}, max_prices |-> {100},
                 contract_rands |-> {1000, 1001}, request_rands |-> {100},
                 horizon |-> Epoch + MaxTime, duration |-> RunDuration,
                 max_requests |-> MaxRequests, buyer_delay |-> 1],
                10, 50, 50, 0)

\* the steps of a run that ends within MaxTime seconds: the second passes of
\* dynamic_pricing and provider_manager are further away than that
Next ==
    \/ Tick
    \/ DriverStartNetwork
    \/ DriverStartProvider
    \/ DriverStartBuyer
    \/ DriverStaggered
    \/ DriverStop
    \/ DriverEnd
    \/ BrokerHandlerExit
    \/ BrokerReceive
    \/ BrokerSendDone
    \/ \E p \in Providers : ProviderRegistered(p)
    \/ \E p \in Providers : ProviderReceive(p)
    \/ \E p \in Providers : ProviderHandlerExit(p)
    \/ \E p \in Providers : ProviderDecide(p)
    \/ \E p \in Providers : ProviderRespond(p)
    \/ \E p \in Providers : ProviderSweep(p)
    \/ \E p \in Providers : ProviderStatusBegin(p)
    \/ \E p \in Providers : ProviderStatusSent(p)
    \/ \E b \in Buyers : BuyerRequest(b)
    \/ \E b \in Buyers : BuyerRequestSent(b)
    \/ \E b \in Buyers : BuyerReceive(b)
    \/ \E b \in Buyers : BuyerHandlerExit(b)
    \/ \E b \in Buyers : BuyerTrack(b)

Spec == Init /\ [][Next]_vars

---------------------------------------------------------------------------
(* Scenario A: one provider of 100 GB at 0.50 $, one request for 50 GB, 2 h *)

\* 1 $ in the unit of total_cost (GB * s * cent per GB-hour)
Dollar == 100 * SecondsPerHour

\* the agents run on past the horizon; the buyer is started at any time after
\* the provider registered and sends its one request at once
InitA ==
    Constructed([providers |-> <<"provider0">>, buyers |-> <<"buyer0">>,
                 spaces |-> {50}, durations |-> {2 * SecondsPerHour},
                 max_prices |-> {100},
                 contract_rands |-> {1000, 1001}, request_rands |-> {100},
                 horizon |-> Epoch + MaxTimeA, duration |-> MaxTimeA + 1,
                 max_requests |-> 1, buyer_delay |-> MaxTimeA + 1],
                100, 50, 0, 0)

\* the steps of agents that are not stopped and whose contracts do not end
NextRunning ==
    \/ Tick
    \/ DriverStartNetwork
    \/ DriverStartProvider
    \/ DriverStartBuyer
    \/ DriverStaggered
    \/ BrokerReceive
    \/ BrokerSendDone
    \/ \E p \in Providers : ProviderRegistered(p)
    \/ \E p \in Providers : ProviderReceive(p)
    \/ \E p \in Providers : ProviderDecide(p)
    \/ \E p \in Providers : ProviderRespond(p)
    \/ \E p \in Providers : ProviderSweep(p)
    \/ \E p \in Providers : ProviderStatusBegin(p)
    \/ \E p \in Providers : ProviderStatusSent(p)
    \/ \E p \in Providers : ProviderPricing(p)
    \/ \E b \in Buyers : BuyerRequestSent(b)
    \/ \E b \in Buyers : BuyerReceive(b)

\* MaxTimeA seconds reach the second pass of provider_manager
NextA == NextRunning \/ BrokerManager

SpecA == InitA /\ [][NextA]_vars

---------------------------------------------------------------------------
(* Admission after a price change: one provider of 10 GB at 0.50 $, a buyer
   that asks for 5 GB at no more than 0.45 $ *)

InitPricing ==
    Constructed([providers |-> <<"provider0">>, buyers |-> <<"buyer0">>,
                 spaces |-> {5}, durations |-> {30}, max_prices |-> {45},
                 contract_rands |-> {1000}, request_rands |-> {100},
                 horizon |-> Epoch + MaxTimePricing, duration |-> MaxTimePricing + 1,
                 max_requests |-> MaxRequests, buyer_delay |-> MaxTimePricing + 1],
                10, 50, 0, 0)

NextPricing == NextRunning \/ \E b \in Buyers : BuyerRequest(b)

SpecPricing == InitPricing /\ [][NextPricing]_vars

---------------------------------------------------------------------------
(* Scenarios B, C and D: one provider of 10 GB at 0.50 $ that fails no
   request or every request, a broker that corrupts no contract or every
   contract, one buyer that asks for 6 GB or 11 GB for 2 s *)

InitFaults ==
    \E failp \in {0, 100}, corrp \in {0, 100} :
        Constructed([providers |-> <<"provider0">>, buyers |-> <<"buyer0">>,
                     spaces |-> {6, 11}, durations |-> {2}, max_prices |-> {100},
                     contract_rands |-> {1000}, request_rands |-> {100},
                     horizon |-> Epoch + MaxTimeFaults, duration |-> MaxTimeFaults + 1,
                     max_requests |-> MaxRequests, buyer_delay |-> 1],
                    10, 50, failp, corrp)

\* the steps of agents that are not stopped, within MaxTimeFaults seconds
NextFaults ==
    \/ Tick
    \/ DriverStartNetwork
    \/ DriverStartProvider
    \/ DriverStartBuyer
    \/ DriverStaggered
    \/ BrokerReceive
    \/ BrokerSendDone
    \/ \E p \in Providers : ProviderRegistered(p)
    \/ \E p \in Providers : ProviderReceive(p)
    \/ \E p \in Providers : ProviderDecide(p)
    \/ \E p \in Providers : ProviderRespond(p)
    \/ \E p \in Providers : ProviderSweep(p)
    \/ \E p \in Providers : ProviderStatusBegin(p)
    \/ \E p \in Providers : ProviderStatusSent(p)
    \/ \E b \in Buyers : BuyerRequest(b)
    \/ \E b \in Buyers : BuyerRequestSent(b)
    \/ \E b \in Buyers : BuyerReceive(b)
    \/ \E b \in Buyers : BuyerTrack(b)

SpecFaults == InitFaults /\ [][NextFaults]_vars

\* the event loop runs every task that is ready: a handler whose queue holds
\* a message receives it, and a sleep that is over (latency of a send,
\* processing time) ends
FairFaults ==
    /\ SpecFaults
    /\ WF_vars(BrokerReceive)
    /\ WF_vars(BrokerSendDone)
    /\ \A p \in Providers : WF_vars(ProviderReceive(p))
    /\ \A p \in Providers : WF_vars(ProviderDecide(p))
    /\ \A p \in Providers : WF_vars(ProviderRespond(p))
    /\ \A b \in Buyers : WF_vars(BuyerReceive(b))

---------------------------------------------------------------------------
(* A run that stops while a request is under way: one provider of 10 GB, one
   buyer that asks for 6 GB for 2 s, the agents stopped after StopAfter
   seconds, when the buyer makes its second request *)

InitStop ==
    Constructed([providers |-> <<"provider0">>, buyers |-> <<"buyer0">>,
                 spaces |-> {6}, durations |-> {2}, max_prices |-> {100},
                 contract_rands |-> {1000}, request_rands |-> {100},
                 horizon |-> Epoch + MaxTimeStop, duration |-> StopAfter,
                 max_requests |-> MaxRequests, buyer_delay |-> 1],
                10, 50, 0, 0)

SpecStop == InitStop /\ [][Next]_vars

---------------------------------------------------------------------------
(* The broker's handler on any sequence of storage requests and allocation
   responses: the network and one provider are started, then the bus brings
   the broker requests of a buyer and responses of the provider, among them
   responses for requests already answered or never forwarded *)

\* the request_id of the k-th request a buyer makes in one second
RelayId(b, k) == <<b, now, 100 + k>>

\* a buyer's storage_request is queued at the broker
RelayAsk ==
    /\ drv.pc = "stagger_provider"
    /\ req_count < cfg.max_requests
    /\ \E b \in Range(cfg.buyers), space_needed \in cfg.spaces,
          duration \in cfg.durations, max_price \in cfg.max_prices :
         Enqueue(b, Broker,
                 [type |-> "storage_request",
                  request |-> StorageRequest(b, space_needed, duration, max_price, now,
                                             RelayId(b, req_count))])
    /\ req_count' = req_count + 1
    /\ UNCHANGED <<now, cfg, prov, brk, buy, metrics, drv, sel, steps, late>>

\* an allocation_response of the provider for a request made before is
\* queued at the broker
RelayAnswer ==
    /\ drv.pc = "stagger_provider"
    /\ steps < MaxRelaySteps
    /\ \E p \in Range(cfg.providers), b \in Range(cfg.buyers), k \in 0..(req_count - 1),
          accepted \in BOOLEAN, reason \in {"insufficient_space", "provider_failure"} :
         Enqueue(p, Broker,
                 IF accepted
                 THEN [type |-> "allocation_response", request_id |-> RelayId(b, k),
                       contract_id |-> <<now, 1000>>,
                       status |-> "accepted", provider_id |-> p]
                 ELSE [type |-> "allocation_response", request_id |-> RelayId(b, k),
                       status |-> "rejected", reason |-> reason, provider_id |-> p])
    /\ steps' = steps + 1
    /\ UNCHANGED <<now, cfg, prov, brk, buy, metrics, drv, req_count, sel, late>>

InitRelay ==
    Constructed([providers |-> <<"provider0">>, buyers |-> <<"buyer0">>,
                 spaces |-> {6, 11}, durations |-> {2}, max_prices |-> {100},
                 contract_rands |-> {1000}, request_rands |-> {100, 101},
                 horizon |-> Epoch, duration |-> RunDuration,
                 max_requests |-> MaxRequests, buyer_delay |-> 1],
                10, 50, 0, 0)

NextRelay ==
    \/ DriverStartNetwork
    \/ DriverStartProvider
    \/ \E p \in Providers : ProviderRegistered(p)
    \/ \E p \in Providers : ProviderReceive(p)
    \/ BrokerReceive
    \/ BrokerSendDone
    \/ RelayAsk
    \/ RelayAnswer

SpecRelay == InitRelay /\ [][NextRelay]_vars

---------------------------------------------------------------------------
(* The buyer's handler on any sequence of storage responses: the network and
   one buyer are started with no provider, the buyer makes its request, and
   the bus brings the buyer the broker's answer and other storage responses,
   for that request or for one the buyer never made *)

\* a storage_response of the broker is queued at a buyer
ResponseArrives ==
    /\ steps < MaxRelaySteps
    /\ \E b \in Range(cfg.buyers), k \in 0..1, success \in BOOLEAN,
          space_needed \in cfg.spaces, duration \in cfg.durations,
          reason \in {"no_suitable_provider", "network_corruption"} :
         /\ buy[b].running
         /\ Enqueue(Broker, b,
                    IF success
                    THEN [type |-> "storage_response",
                          response |->
                              [request_id |-> RelayId(b, k), status |-> "success",
                               contract |->
                                   StorageContract(<<now, 1000>>, b, "provider0",
                                                   space_needed, duration, 50,
                                                   CostOf(space_needed, duration, 50),
                                                   now, now + duration, "active")]]
                    ELSE FailureResponse(RelayId(b, k), reason))
    /\ steps' = steps + 1
    /\ UNCHANGED <<now, cfg, prov, brk, buy, metrics, drv, req_count, sel, late>>

InitResponses ==
    Constructed([providers |-> <<>>, buyers |-> <<"buyer0">>,
                 spaces |-> {6}, durations |-> {2}, max_prices |-> {100},
                 contract_rands |-> {1000}, request_rands |-> {100},
                 horizon |-> Epoch, duration |-> RunDuration,
                 max_requests |-> 1, buyer_delay |-> 1],
                10, 50, 0, 0)

NextResponses ==
    \/ DriverStartNetwork
    \/ DriverStartBuyer
    \/ BrokerReceive
    \/ BrokerSendDone
    \/ \E b \in Buyers : BuyerRequestSent(b)
    \/ \E b \in Buyers : BuyerReceive(b)
    \/ ResponseArrives

SpecResponses == InitResponses /\ [][NextResponses]_vars

---------------------------------------------------------------------------
(* select_provider on the registries that registrations build *)

\* the ProviderInfo a registration of p can carry
RegistrationInfos(p) ==
    {ProviderInfo(p, 10, available, reputation, price, succ, 0) :
        available \in {4, 10}, reputation \in {900, RepFloor, RepInitial},
        price \in {0, 40}, succ \in {0, 1}}

\* the requests a buyer can make of the broker
ProbeRequests ==
    {StorageRequest("buyer0", 5, 2, max_price, Epoch, <<"buyer0", Epoch, 100>>) :
        max_price \in {0, 40, 45}}

Reverse(seq) == [i \in 1..Len(seq) |-> seq[Len(seq) + 1 - i]]

\* a provider registers with the broker
ProbeRegister ==
    /\ ~sel.done
    /\ steps < MaxSelectSteps
    /\ \E p \in Providers : \E provider_info \in RegistrationInfos(p) :
         brk' = handle_provider_registration(brk, provider_info)
    /\ steps' = steps + 1
    /\ UNCHANGED <<now, cfg, mailboxes, message_count, prov, buy, metrics, drv, req_count, sel, late>>

\* the freshness window passes without a status update
ProbeWait ==
    /\ ~sel.done
    /\ now = Epoch
    /\ now' = now + FreshnessWindow
    /\ UNCHANGED <<cfg, mailboxes, message_count, prov, brk, buy, metrics, drv, req_count, sel, steps, late>>

\* select_provider is called on the registry, and on the registry of the same
\* providers registered in the opposite order
ProbeSelect ==
    /\ ~sel.done
    /\ \E request \in ProbeRequests :
         sel' = [request |-> request, at |-> now, registry |-> brk,
                 result |-> select_provider(brk, request, now),
                 swapped |-> select_provider([brk EXCEPT !.providers = Reverse(@)],
                                             request, now),
                 done |-> TRUE]
    /\ UNCHANGED <<now, cfg, mailboxes, message_count, prov, brk, buy, metrics, drv, req_count, steps, late>>

InitSelect ==
    Constructed([providers |-> <<"provider0", "provider1">>, buyers |-> <<"buyer0">>,
                 spaces |-> {5}, durations |-> {2}, max_prices |-> {0, 40, 45},
                 contract_rands |-> {1000}, request_rands |-> {100},
                 horizon |-> Epoch + FreshnessWindow, duration |-> RunDuration,
                 max_requests |-> 1, buyer_delay |-> 1],
                10, 40, 0, 0)

NextSelect == ProbeRegister \/ ProbeWait \/ ProbeSelect

SpecSelect == InitSelect /\ [][NextSelect]_vars

\* the providers of the probed registry that meet the request's requirements
Qualifying ==
    {p \in Providers :
        /\ InProviders(sel.registry, p)
        /\ sel.registry.info[p].available_space_gb >= sel.request.space_gb
        /\ sel.registry.info[p].price_per_gb_hour <= sel.request.max_price_per_gb_hour
        /\ sel.registry.info[p].reputation >= RepFloor
        /\ sel.at - LastSeen(sel.registry, p) < FreshnessWindow}

\* C6: for every request the data model allows (max price 0 included) and
\* every registry, select_provider returns a provider if and only if some
\* registered provider has the space, the price, the reputation floor and a
\* fresh last_seen; the one returned qualifies and none that qualifies has a
\* strictly higher score.
SelectsIffQualifying ==
    sel.done =>
        /\ (sel.result # "None") <=> (Qualifying # {})
        /\ sel.result # "None" =>
              /\ sel.result \in Qualifying
              /\ \A q \in Qualifying :
                    ScoreDifference(sel.registry.info[q], sel.registry.info[sel.result],
                                    sel.request.max_price_per_gb_hour) <= 0

\* C8: two registries of the same providers with the same cached fields,
\* registered in a different order, select the same provider for the same
\* request, also when qualifying providers tie on the maximal score.
SelectionIgnoresOrder == sel.done => sel.result = sel.swapped

---------------------------------------------------------------------------
(* Freshness and eviction: two providers register and push their status at
   any of the times the clock is read, the broker's provider_manager makes
   its pass at any of them, and select_provider is called *)

\* the seconds between two readings of the clock: one less than the
\* freshness window, the window, one more
FreshWaits == {FreshnessWindow - 1, FreshnessWindow, FreshnessWindow + 1}

\* time passes with no message handled
FreshWait ==
    /\ ~sel.done
    /\ \E d \in FreshWaits :
         /\ now + d <= cfg.horizon
         /\ now' = now + d
    /\ UNCHANGED <<cfg, mailboxes, message_count, prov, brk, buy, metrics, drv, req_count, sel, steps, late>>

\* the broker handles the registration of a provider
FreshRegister ==
    /\ ~sel.done
    /\ steps < MaxFreshSteps
    /\ \E p \in Range(cfg.providers) :
         brk' = handle_provider_registration(brk, RegistrationOf(p, prov[p]).provider_info)
    /\ steps' = steps + 1
    /\ UNCHANGED <<now, cfg, mailboxes, message_count, prov, buy, metrics, drv, req_count, sel, late>>

\* the broker handles a status push of a provider
FreshStatus ==
    /\ ~sel.done
    /\ steps < MaxFreshSteps
    /\ \E p \in Range(cfg.providers) :
         /\ InProviders(brk, p)
         /\ brk' = handle_status_update(brk, StatusOf(p, prov[p]))
    /\ steps' = steps + 1
    /\ UNCHANGED <<now, cfg, mailboxes, message_count, prov, buy, metrics, drv, req_count, sel, late>>

\* provider_manager makes a pass
FreshSweep ==
    /\ ~sel.done
    /\ brk' = ManagerPass(brk)
    /\ UNCHANGED <<now, cfg, mailboxes, message_count, prov, buy, metrics, drv, req_count, sel, steps, late>>

InitFresh ==
    Constructed([providers |-> <<"provider0", "provider1">>, buyers |-> <<"buyer0">>,
                 spaces |-> {5}, durations |-> {2}, max_prices |-> {0, 40, 45},
                 contract_rands |-> {1000}, request_rands |-> {100},
                 horizon |-> Epoch + MaxTimeFresh, duration |-> MaxTimeFresh + 1,
                 max_requests |-> 1, buyer_delay |-> 1],
                10, 40, 0, 0)

NextFresh == FreshWait \/ FreshRegister \/ FreshStatus \/ FreshSweep \/ ProbeSelect

SpecFresh == InitFresh /\ [][NextFresh]_vars

---------------------------------------------------------------------------
(* The two reputations of a provider under any sequence of updates *)

\* the reputation a provider has when the sequence starts: the initial 5.0,
\* or a bound, where a long run of rejections or of acceptances leaves it
StartReputations == {RepMin, RepInitial, RepMax}

\* the provider accepts or rejects an allocation request
RepOutcome ==
    /\ steps < MaxRepSteps
    /\ \E success \in BOOLEAN :
         prov' = [prov EXCEPT !["provider0"] = update_reputation(@, success)]
    /\ steps' = steps + 1
    /\ UNCHANGED <<now, cfg, mailboxes, message_count, brk, buy, metrics, drv, req_count, sel, late>>

\* the broker handles the provider's registration
RepRegister ==
    /\ steps < MaxRepSteps
    /\ brk' = handle_provider_registration(
                  brk, RegistrationOf("provider0", prov["provider0"]).provider_info)
    /\ steps' = steps + 1
    /\ UNCHANGED <<now, cfg, mailboxes, message_count, prov, buy, metrics, drv, req_count, sel, late>>

\* the broker handles a status push of the provider
RepStatus ==
    /\ steps < MaxRepSteps
    /\ InProviders(brk, "provider0")
    /\ brk' = handle_status_update(brk, StatusOf("provider0", prov["provider0"]))
    /\ steps' = steps + 1
    /\ UNCHANGED <<now, cfg, mailboxes, message_count, prov, buy, metrics, drv, req_count, sel, late>>

\* the broker handles an allocation response and adjusts its own estimate
RepNudge ==
    /\ steps < MaxRepSteps
    /\ InProviders(brk, "provider0")
    /\ \E accepted \in BOOLEAN : brk' = Nudge(brk, "provider0", accepted)
    /\ steps' = steps + 1
    /\ UNCHANGED <<now, cfg, mailboxes, message_count, prov, buy, metrics, drv, req_count, sel, late>>

InitRep ==
    \E reputation \in StartReputations :
        ConstructedWith([providers |-> <<"provider0">>, buyers |-> <<"buyer0">>,
                         spaces |-> {5}, durations |-> {2}, max_prices |-> {100},
                         contract_rands |-> {1000}, request_rands |-> {100},
                         horizon |-> Epoch, duration |-> RunDuration,
                         max_requests |-> 1, buyer_delay |-> 1],
                        [p \in Providers |->
                            [NewProvider(10, 50, 50) EXCEPT !.reputation = reputation]],
                        0)

NextRep == RepOutcome \/ RepRegister \/ RepStatus \/ RepNudge

SpecRep == InitRep /\ [][NextRep]_vars

\* C4: after any finite sequence of accept/reject outcomes, broker nudges,
\* registrations and status pushes, the provider's own reputation and the
\* broker's cached reputation both stay within [0.1, 10.0].
ReputationBounded ==
    \A p \in Providers :
        /\ RepMin <= prov[p].reputation /\ prov[p].reputation <= RepMax
        /\ InProviders(brk, p) =>
              RepMin <= brk.info[p].reputation /\ brk.info[p].reputation <= RepMax

\* C4's case: at a bound, the provider's update and the broker's nudge have
\* both acted and left the two reputations on the bound
ClampedAtBound ==
    \E p \in Providers :
        /\ InProviders(brk, p)
        /\ \/ /\ prov[p].failure_count > 0 /\ prov[p].reputation = RepMin
              /\ brk.info[p].failure_count > prov[p].failure_count
              /\ brk.info[p].reputation = RepMin
           \/ /\ prov[p].success_count > 0 /\ prov[p].reputation = RepMax
              /\ brk.info[p].success_count > prov[p].success_count
              /\ brk.info[p].reputation = RepMax

---------------------------------------------------------------------------
(* Properties of a run *)

\* the bodies of the messages queued or being sent
BodiesInFlight ==
    UNION {{mailboxes[a][i].body : i \in 1..Len(mailboxes[a])} : a \in DOMAIN mailboxes}
    \cup {prov[p].h_msg.body : p \in {q \in Providers : prov[q].h_msg # NoMsg}}
    \cup (IF brk.h_pc = "send" THEN {brk.h_out} ELSE {})

\* the contracts the broker sent to a provider, those the providers store,
\* those relayed to a buyer and those the buyers store
ContractsMade ==
    {m.contract : m \in {x \in BodiesInFlight : x.type = "allocation_request"}}
    \cup {m.response.contract :
            m \in {x \in BodiesInFlight :
                      x.type = "storage_response" /\ x.response.status = "success"}}
    \cup UNION {Range(prov[p].active_contracts) \cup Range(prov[p].completed_contracts)
                : p \in Providers}
    \cup UNION {Range(buy[b].active_contracts) \cup Range(buy[b].completed_contracts)
                : b \in Buyers}

\* C1: for every provider, in every reachable state, available_space_gb plus
\* the space_gb of the contracts in its active set equals total_space_gb,
\* whatever contract ids the broker generated.
SpaceAccounted ==
    \A p \in Providers :
        prov[p].available_space_gb + SumSpace(prov[p].active_contracts)
            = prov[p].total_space_gb

\* C2: with several allocation requests queued at a provider and a stale
\* cache at the broker, the provider never accepts more than it has free:
\* 0 <= available_space_gb <= total_space_gb in every reachable state.
SpaceWithinBounds ==
    \A p \in Providers :
        /\ 0 <= prov[p].available_space_gb
        /\ prov[p].available_space_gb <= prov[p].total_space_gb

\* C2's case: the broker forwarded a request on a cached available space the
\* provider no longer has, and the provider rejects it for lack of space
StaleForwardRejected ==
    \E p \in Providers :
        /\ prov[p].h_pc = "send"
        /\ prov[p].h_out.status = "rejected"
        /\ prov[p].h_out.reason = "insufficient_space"
        /\ brk.info[p].available_space_gb >= prov[p].h_msg.body.contract.space_gb
        /\ prov[p].available_space_gb < prov[p].h_msg.body.contract.space_gb

\* C5: every contract made (sent to a provider as pending, stored by a
\* provider, relayed to a buyer) has total_cost = space_gb * duration_hours *
\* price_per_gb_hour and end_time > start_time.
CostIsProduct ==
    \A c \in ContractsMade :
        /\ c.total_cost = (c.space_gb * c.duration_hours) * c.price_per_gb_hour
        /\ c.end_time > c.start_time

\* C5's case: a provider and a buyer both hold a contract, and a pending one
\* is on its way to a provider
ContractsOfEveryKind ==
    /\ \E p \in Providers : prov[p].active_contracts # <<>>
    /\ \E b \in Buyers : buy[b].active_contracts # <<>>
    /\ \E m \in BodiesInFlight : m.type = "allocation_request"

\* C3: a provider adds a contract to its active set only if, at the moment
\* of admission, the requested space is at most its available_space_gb and
\* its own current price is at most the request's max_price_per_gb_hour, also
\* when dynamic pricing changed the price after the last status push.
AdmissionChecked ==
    [][\A p \in Providers :
          (prov[p].h_pc = "proc"
           /\ prov'[p].requests_accepted > prov[p].requests_accepted)
          => LET contract_data == prov[p].h_msg.body.contract
                 entry == DictGet(brk.pending_allocations, prov[p].h_msg.body.request_id,
                                  PendingKey)
             IN /\ contract_data.space_gb <= prov[p].available_space_gb
                /\ prov[p].current_price_per_gb_hour
                     <= entry.request.max_price_per_gb_hour]_vars

\* C9 as stated: in Scenario A the request, sent at any time after the
\* provider registered, is accepted with total_cost = 50 $, and the
\* provider's available_space_gb is 50 as soon as the acceptance is made.
ScenarioACostsFifty ==
    /\ prov["provider0"].requests_rejected = 0
    /\ brk.failed_allocations = 0
    /\ buy["buyer0"].requests_failed = 0
    /\ prov["provider0"].available_space_gb
         = IF prov["provider0"].requests_accepted = 0 THEN 100 ELSE 50
    /\ \A c \in ContractsMade : c.total_cost = 50 * Dollar

\* C9 amended: in Scenario A the request is accepted, the provider's
\* available_space_gb is 50 as soon as the acceptance is made, and total_cost
\* is 50 GB * 2 h * the price the broker has cached when it builds the
\* contract: 50 $ at the base price, 40 $ once a status push has carried the
\* low-utilisation price of 0.8 * base.
ScenarioAAccepted ==
    /\ prov["provider0"].requests_rejected = 0
    /\ brk.failed_allocations = 0
    /\ buy["buyer0"].requests_failed = 0
    /\ prov["provider0"].available_space_gb
         = IF prov["provider0"].requests_accepted = 0 THEN 100 ELSE 50
    /\ \A c \in ContractsMade :
          /\ c.space_gb = 50 /\ c.duration_hours = 2 * SecondsPerHour
          /\ c.total_cost = (c.space_gb * c.duration_hours) * c.price_per_gb_hour
          /\ c.total_cost \in {50 * Dollar, 40 * Dollar}

\* C9's case: the request was sent after the discounted price was pushed; it
\* is accepted, the provider has 50 GB left and the buyer's contract costs 40 $
ScenarioALateRequest ==
    /\ prov["provider0"].requests_accepted = 1
    /\ prov["provider0"].available_space_gb = 50
    /\ buy["buyer0"].requests_successful = 1
    /\ \E c \in Range(buy["buyer0"].active_contracts) : c.total_cost = 40 * Dollar

\* C10: the space of every contract a running provider accepted is not
\* returned before the contract's end_time and is returned no later than a
\* sweep interval (2 s) after it: the contracts completed have ended, and the
\* space that is out belongs to active contracts not yet past that deadline.
ReleasedInWindow ==
    \A p \in Providers :
        prov[p].running =>
            /\ \A c \in Range(prov[p].completed_contracts) : now >= c.end_time
            /\ prov[p].total_space_gb - prov[p].available_space_gb
                 <= SumSpace(SelectSeq(prov[p].active_contracts,
                                       LAMBDA c : now <= c.end_time + SweepInterval))

\* the request of the message the broker's handler receives next
NextRequest == Head(mailboxes[Broker]).body.request

\* the broker's handler takes a storage_request from its queue
HandlesStorageRequest ==
    /\ brk.h_pc = "recv"
    /\ mailboxes[Broker] # <<>>
    /\ Head(mailboxes[Broker]).body.type = "storage_request"
    /\ brk'.requests_processed = brk.requests_processed + 1

\* C11: when a storage_request asks for more space than the cached
\* available_space_gb of every registered provider, the broker answers the
\* buyer with failure / no_suitable_provider (the response is queued at the
\* buyer when its send completes), queues no allocation_request at any
\* provider and records no pending-allocation entry for the request.
OversizedFailed ==
    [][/\ (HandlesStorageRequest
           /\ \A i \in 1..Len(brk.providers) :
                 brk.info[brk.providers[i]].available_space_gb < NextRequest.space_gb)
          => /\ brk'.h_pc = "send"
             /\ brk'.h_to = Head(mailboxes[Broker]).from
             /\ brk'.h_out = FailureResponse(NextRequest.request_id,
                                             "no_suitable_provider")
             /\ brk'.pending_allocations = brk.pending_allocations
       /\ (brk.h_pc = "send" /\ brk.h_cont = "nosuit" /\ brk'.h_pc # "send")
          => /\ mailboxes'[brk.h_to] # <<>>
             /\ mailboxes'[brk.h_to][Len(mailboxes'[brk.h_to])].body = brk.h_out
             /\ \A p \in Providers \cap DOMAIN mailboxes : mailboxes'[p] = mailboxes[p]
             /\ brk'.pending_allocations = brk.pending_allocations]_vars

\* C11's case: a failure / no_suitable_provider is queued at a buyer for a
\* pending request larger than the cached space of the registered provider
OversizedAnswered ==
    \E b \in Buyers \cap DOMAIN mailboxes : \E i \in 1..Len(mailboxes[b]) :
        LET response == mailboxes[b][i].body.response
        IN /\ response.status = "failure"
           /\ response.reason = "no_suitable_provider"
           /\ brk.providers # <<>>
           /\ DictHas(buy[b].pending_requests, response.request_id, RequestKey)
           /\ \A k \in 1..Len(brk.providers) :
                 brk.info[brk.providers[k]].available_space_gb
                   < DictGet(buy[b].pending_requests, response.request_id,
                             RequestKey).space_gb
           /\ ~DictHas(brk.pending_allocations, response.request_id, PendingKey)

\* the broker's handler takes from its queue an allocation_response for
\* which it holds a pending-allocation entry
HandlesAllocationResponse ==
    /\ brk.h_pc = "recv"
    /\ mailboxes[Broker] # <<>>
    /\ Head(mailboxes[Broker]).body.type = "allocation_response"
    /\ DictHas(brk.pending_allocations, Head(mailboxes[Broker]).body.request_id,
               PendingKey)
    /\ mailboxes'[Broker] = Tail(mailboxes[Broker])

\* the types of message the agents send
MessageTypes ==
    {"provider_registration", "storage_request", "allocation_request",
     "allocation_response", "status_update", "storage_response"}

\* C12: with corruption probability 1.0 every allocation a provider accepts
\* is reported to the buyer as failure / network_corruption and the buyer
\* records no contract and no spending, while the provider keeps the
\* reservation: the space stays out and the contract stays in its active set
\* until the sweep completes it at its end_time; no message other than the
\* six of the protocol (no rollback) is ever sent.
CorruptionKeepsReservation ==
    /\ [](brk.corruption_probability = 100 =>
            /\ \A b \in Buyers :
                  /\ buy[b].active_contracts = <<>>
                  /\ buy[b].completed_contracts = <<>>
                  /\ buy[b].requests_successful = 0
                  /\ buy[b].total_spent = 0
            /\ \A m \in BodiesInFlight :
                  /\ m.type \in MessageTypes
                  /\ m.type = "storage_response" => m.response.status = "failure"
            /\ \A p \in Providers :
                  /\ prov[p].available_space_gb
                       = prov[p].total_space_gb - SumSpace(prov[p].active_contracts)
                  /\ prov[p].requests_accepted
                       = Len(prov[p].active_contracts) + Len(prov[p].completed_contracts)
                  /\ \A c \in Range(prov[p].completed_contracts) : now >= c.end_time)
    /\ [][(brk.corruption_probability = 100
            /\ HandlesAllocationResponse
            /\ Head(mailboxes[Broker]).body.status = "accepted")
           => /\ brk'.h_pc = "send"
              /\ brk'.h_to = DictGet(brk.pending_allocations,
                                     Head(mailboxes[Broker]).body.request_id,
                                     PendingKey).buyer_id
              /\ brk'.h_out = FailureResponse(Head(mailboxes[Broker]).body.request_id,
                                              "network_corruption")
              /\ prov' = prov]_vars

\* C12's case: the buyer was told that its request failed while the provider
\* that accepted it still holds the contract and the space
CorruptedButReserved ==
    /\ brk.corruption_probability = 100
    /\ brk.corrupted_contracts > 0
    /\ \E p \in Providers :
          /\ prov[p].active_contracts # <<>>
          /\ prov[p].available_space_gb < prov[p].total_space_gb
          /\ \E b \in Buyers :
                /\ buy[b].requests_failed > 0
                /\ buy[b].pending_requests = <<>>
                /\ buy[b].total_spent = 0

\* provider p's handler ends its processing sleep and decides on the request
Decides(p) == prov[p].h_pc = "proc" /\ prov'[p].h_pc = "send"

\* C13: a rejection carries the reason insufficient_space exactly when
\* available_space_gb < the requested space at decision time, and
\* provider_failure otherwise; with failure probability 1.0 and sufficient
\* capacity every allocation_request is rejected with provider_failure, and
\* the provider's reputation only decreases and stays at or above 0.1.
RejectionReasoned ==
    [][\A p \in Providers :
          LET space_needed == prov[p].h_msg.body.contract.space_gb
          IN /\ (Decides(p) /\ prov'[p].requests_rejected > prov[p].requests_rejected)
                => /\ prov'[p].h_out.status = "rejected"
                   /\ (prov'[p].h_out.reason = "insufficient_space")
                        <=> (prov[p].available_space_gb < space_needed)
                   /\ (prov'[p].h_out.reason = "provider_failure")
                        <=> ~(prov[p].available_space_gb < space_needed)
             /\ (Decides(p) /\ prov[p].failure_probability = 100
                    /\ prov[p].available_space_gb >= space_needed)
                => /\ prov'[p].requests_rejected = prov[p].requests_rejected + 1
                   /\ prov'[p].h_out.status = "rejected"
                   /\ prov'[p].h_out.reason = "provider_failure"
                   /\ prov'[p].reputation < prov[p].reputation
             /\ prov[p].failure_probability = 100
                => /\ prov'[p].reputation <= prov[p].reputation
                   /\ prov'[p].reputation >= RepMin]_vars

\* C13's case (Scenario D): a provider that fails every request has the
\* space and rejects its second request with provider_failure
FailingProviderRejects ==
    \E p \in Providers :
        /\ prov[p].failure_probability = 100
        /\ prov[p].h_pc = "send"
        /\ prov[p].h_out.status = "rejected"
        /\ prov[p].h_out.reason = "provider_failure"
        /\ prov[p].requests_rejected = 2
        /\ prov[p].available_space_gb >= prov[p].h_msg.body.contract.space_gb
        /\ prov[p].reputation = (((RepInitial * 98) \div 100) * 98) \div 100

\* the allocation_response the broker's handler receives next
NextResponse == Head(mailboxes[Broker]).body

\* the broker's handler ends the send of the storage_response it relays
RelayQueued == brk.h_pc = "send" /\ brk.h_cont = "relay" /\ brk'.h_pc # "send"

\* C14: for a request the broker forwarded, the storage_response built for
\* (and then queued at) the buyer of the pending entry is a success with a
\* contract of status active iff the provider accepted and no corruption was
\* drawn, a failure with reason network_corruption iff the provider accepted
\* and corruption was drawn, and a failure with exactly the provider's reason
\* iff the provider rejected.
RelayFollowsProvider ==
    [][/\ HandlesAllocationResponse
          => LET accepted == NextResponse.status = "accepted"
                 corrupted == brk'.corrupted_contracts > brk.corrupted_contracts
                 entry == DictGet(brk.pending_allocations, NextResponse.request_id,
                                  PendingKey)
                 out == brk'.h_out.response
             IN /\ brk'.h_pc = "send"
                /\ brk'.h_to = entry.buyer_id
                /\ brk'.h_out.type = "storage_response"
                /\ out.request_id = NextResponse.request_id
                /\ out.status \in {"success", "failure"}
                /\ (out.status = "success") <=> (accepted /\ ~corrupted)
                /\ out.status = "success" => out.contract.status = "active"
                /\ (out.status = "failure" /\ accepted)
                     <=> (accepted /\ corrupted)
                /\ (out.status = "failure" /\ accepted)
                     => out.reason = "network_corruption"
                /\ ~accepted => out.status = "failure" /\ out.reason = NextResponse.reason
                /\ (out.status = "failure" /\ out.reason = "network_corruption")
                     => accepted
       /\ RelayQueued
          => /\ mailboxes'[brk.h_to] # <<>>
             /\ mailboxes'[brk.h_to][Len(mailboxes'[brk.h_to])].body = brk.h_out]_vars

\* C14's case: the buyer holds the contract of a request that was accepted
\* and not corrupted, and the broker relays the provider's reason for the
\* rejection of the next one
RejectionRelayed ==
    /\ brk.h_pc = "send"
    /\ brk.h_cont = "relay"
    /\ brk.h_out.response.status = "failure"
    /\ brk.h_out.response.reason = "insufficient_space"
    /\ \E b \in Buyers :
          /\ brk.h_to = b
          /\ buy[b].requests_successful = 1
          /\ \E c \in Range(buy[b].active_contracts) : c.status = "active"

\* the request_ids of the broker's pending-allocation entries
PendingIds(B) == {B.pending_allocations[i].request_id : i \in 1..Len(B.pending_allocations)}

\* C15: for each request_id the broker relays at most one storage_response
\* to the buyer and removes the pending-allocation entry exactly once, after
\* the relay; a second allocation_response with the same request_id finds no
\* entry and causes no message, no reputation nudge and no statistics change.
RelayedOnce ==
    /\ [](\A b \in Buyers \cap DOMAIN mailboxes :
            \A i, j \in 1..Len(mailboxes[b]) :
               mailboxes[b][i].body.response.request_id
                 = mailboxes[b][j].body.response.request_id => i = j)
    /\ [][/\ HandlesAllocationResponse
              => PendingIds(brk') = PendingIds(brk) /\ mailboxes'[brk'.h_to] = mailboxes[brk'.h_to]
          /\ RelayQueued
              => /\ brk.h_rid \in PendingIds(brk)
                 /\ PendingIds(brk') = PendingIds(brk) \ {brk.h_rid}
                 /\ mailboxes'[brk.h_to] = Append(mailboxes[brk.h_to],
                                                  mailboxes'[brk.h_to][Len(mailboxes'[brk.h_to])])
                 /\ mailboxes'[brk.h_to][Len(mailboxes'[brk.h_to])].body = brk.h_out
          /\ ~(PendingIds(brk) \subseteq PendingIds(brk')) => RelayQueued
          /\ (/\ brk.h_pc = "recv"
               /\ mailboxes[Broker] # <<>>
               /\ mailboxes'[Broker] = Tail(mailboxes[Broker])
               /\ NextResponse.type = "allocation_response"
               /\ NextResponse.request_id \notin PendingIds(brk))
              => /\ brk' = brk
                 /\ metrics' = metrics
                 /\ message_count' = message_count
                 /\ \A a \in DOMAIN mailboxes \ {Broker} : mailboxes'[a] = mailboxes[a]]_vars

\* C15's case: the one request made was forwarded and two allocation
\* responses for it were handled; the buyer has one storage_response, the
\* entry is gone and one allocation is counted
DuplicateIgnored ==
    /\ req_count = 1
    /\ steps = 2
    /\ mailboxes[Broker] = <<>>
    /\ brk.h_pc = "recv"
    /\ brk.pending_allocations = <<>>
    /\ brk.requests_processed = 1
    /\ brk.successful_allocations + brk.failed_allocations = 1
    /\ \E p \in Range(cfg.providers) :
          /\ prov[p].requests_received = 1
          /\ brk.info[p].success_count + brk.info[p].failure_count = 1
    /\ \E b \in Range(cfg.buyers) : Len(mailboxes[b]) = 1

\* buyer b's handler takes a message from its queue
BuyerHandles(b) ==
    /\ buy[b].h_pc = "recv"
    /\ mailboxes[b] # <<>>
    /\ mailboxes'[b] = Tail(mailboxes[b])

\* the request_ids of buyer b's pending requests
PendingRequestIds(Y) == {Y.pending_requests[i].request_id : i \in 1..Len(Y.pending_requests)}

\* C16: a storage_response whose request_id is pending removes that entry
\* (and no other) and counts as exactly one success or one failure; one
\* whose request_id is not pending leaves the buyer's pending set, active and
\* completed contracts, statistics and the metrics unchanged; nothing else
\* removes a pending entry.
ResponseCountedOnce ==
    [][\A b \in Buyers \cap DOMAIN mailboxes :
          LET Y == buy[b]
              Z == buy'[b]
              response == Head(mailboxes[b]).body.response
          IN /\ (BuyerHandles(b) /\ response.request_id \in PendingRequestIds(Y))
                => /\ Z.pending_requests
                        = DictDel(Y.pending_requests, response.request_id, RequestKey)
                   /\ PendingRequestIds(Z) = PendingRequestIds(Y) \ {response.request_id}
                   /\ IF response.status = "success"
                      THEN /\ Z.requests_successful = Y.requests_successful + 1
                           /\ Z.requests_failed = Y.requests_failed
                      ELSE /\ Z.requests_successful = Y.requests_successful
                           /\ Z.requests_failed = Y.requests_failed + 1
             /\ (BuyerHandles(b) /\ response.request_id \notin PendingRequestIds(Y))
                => Z = Y /\ metrics' = metrics
             /\ ~(PendingRequestIds(Y) \subseteq PendingRequestIds(Z))
                => BuyerHandles(b) /\ response.request_id \in PendingRequestIds(Y)]_vars

\* C16's case: the buyer made one request and handled three responses with
\* its request_id or an unknown one; one of them was counted
ExtraResponsesDropped ==
    \E b \in Range(cfg.buyers) :
        /\ buy[b].requests_sent = 1
        /\ message_count >= 4
        /\ mailboxes[b] = <<>>
        /\ buy[b].h_pc = "recv"
        /\ buy[b].pending_requests = <<>>
        /\ buy[b].requests_successful + buy[b].requests_failed = 1
        /\ Len(buy[b].active_contracts) = buy[b].requests_successful
        /\ metrics.total_requests = 2

\* the request_ids a buyer can give its requests in a run from InitFaults
RequestIds(b) == {<<b, t, rand>> : t \in Epoch..(Epoch + MaxTimeFaults), rand \in {100}}

\* buyer b's send of the request returned True: the request is queued at the
\* broker or further on its way
Sent(b, request_id) ==
    /\ request_id \in PendingRequestIds(buy[b])
    /\ ~(buy[b].req_pc = "send" /\ buy[b].req_msg.request.request_id = request_id)

\* buyer b processed the response: the request is pending nowhere
Resolved(b, request_id) ==
    /\ request_id \notin PendingRequestIds(buy[b])
    /\ request_id \notin PendingIds(brk)
    /\ buy[b].requests_successful + buy[b].requests_failed > 0

\* C17: while the buyer, the broker and the provider keep running and every
\* ready task is run, every storage_request a buyer has sent leads to the
\* buyer processing a storage_response for it, after which the request is in
\* neither the buyer's pending set nor the broker's pending allocations; a
\* request made is counted once, as pending, successful or failed.
RequestAnswered ==
    /\ \A b \in {"buyer0"} : \A request_id \in RequestIds(b) :
          Sent(b, request_id) ~> Resolved(b, request_id)
    /\ [](buy["buyer0"].requests_successful + buy["buyer0"].requests_failed
            + Len(buy["buyer0"].pending_requests) = req_count)

\* C17's case: both requests of the buyer were sent, one of them was
\* forwarded to the provider, and both are answered
BothRequestsAnswered ==
    /\ buy["buyer0"].requests_sent = 2
    /\ buy["buyer0"].requests_successful + buy["buyer0"].requests_failed = 2
    /\ buy["buyer0"].pending_requests = <<>>
    /\ brk.pending_allocations = <<>>
    /\ prov["provider0"].requests_received >= 1
    /\ brk.requests_processed = 2

\* the allocation requests queued at provider p, which it has not taken
Unreplied(p) ==
    {mailboxes[p][i].body : i \in 1..Len(mailboxes[p])}

\* C18: no timeout, sweep or stop removes a pending entry: a buyer's pending
\* request goes only when the buyer processes a storage_response with its
\* request_id, a broker's pending-allocation entry only at the end of
\* handling an allocation_response with its request_id; the request a
\* stopped provider has not replied to stays pending at the broker and at
\* the buyer.
PendingKept ==
    /\ [][/\ \A b \in Buyers \cap DOMAIN mailboxes :
                ~(PendingRequestIds(buy[b]) \subseteq PendingRequestIds(buy'[b]))
                => /\ BuyerHandles(b)
                   /\ Head(mailboxes[b]).body.type = "storage_response"
                   /\ PendingRequestIds(buy[b]) \ PendingRequestIds(buy'[b])
                        = {Head(mailboxes[b]).body.response.request_id}
          /\ ~(PendingIds(brk) \subseteq PendingIds(brk'))
                => /\ RelayQueued
                   /\ brk.h_out.response.request_id = brk.h_rid
                   /\ PendingIds(brk) \ PendingIds(brk') = {brk.h_rid}]_vars
    /\ [](\A p \in Providers \cap DOMAIN mailboxes :
            prov[p].h_pc = "done"
            => \A m \in Unreplied(p) :
                  /\ m.request_id \in PendingIds(brk)
                  /\ m.request_id \in PendingRequestIds(buy[m.contract.buyer_id]))

\* C18's case: the run is over, every task has ended, and a request that
\* reached the provider after its handler ended is still pending at the
\* broker and at the buyer
PendingForever ==
    /\ drv.pc = "done"
    /\ brk.h_pc = "done"
    /\ \A b \in Range(cfg.buyers) : buy[b].h_pc = "done"
    /\ \E p \in Range(cfg.providers) :
          /\ prov[p].h_pc = "done"
          /\ \E m \in Unreplied(p) :
                /\ m.request_id \in PendingIds(brk)
                /\ m.request_id \in PendingRequestIds(buy[m.contract.buyer_id])

\* the broker's handler takes from its queue a status_update of a provider
\* it has registered
HandlesStatusUpdate ==
    /\ brk.h_pc = "recv"
    /\ mailboxes[Broker] # <<>>
    /\ Head(mailboxes[Broker]).body.type = "status_update"
    /\ InProviders(brk, Head(mailboxes[Broker]).body.provider_id)
    /\ mailboxes'[Broker] = Tail(mailboxes[Broker])

\* C19: right after the broker handles a status_update of a registered
\* provider, its cached available space, reputation and price for that
\* provider are the pushed values and last_seen is the time of handling,
\* whatever nudges the broker applied to the cached reputation before.
PushOverwritesCache ==
    [][HandlesStatusUpdate
       => LET status == Head(mailboxes[Broker]).body
              p == status.provider_id
          IN /\ brk'.info[p].available_space_gb = status.available_space_gb
             /\ brk'.info[p].reputation = status.reputation
             /\ brk'.info[p].price_per_gb_hour = status.price_per_gb_hour
             /\ brk'.provider_last_seen[p] = now
             /\ InProviders(brk', p)]_vars

\* C19's case: the broker nudged the cached reputation of a provider after
\* an acceptance (5.0 * 1.01), and the push handled since replaced it by the
\* provider's own (5.0 * 1.02)
NudgeOverwritten ==
    \E p \in Range(cfg.providers) :
        /\ InProviders(brk, p)
        /\ brk.info[p].success_count = 1
        /\ brk.info[p].failure_count = 0
        /\ prov[p].reputation = (RepInitial * 102) \div 100
        /\ brk.info[p].reputation = prov[p].reputation
        /\ brk.info[p].reputation # (RepInitial * 101) \div 100
        /\ brk.info[p].available_space_gb = prov[p].available_space_gb
        /\ brk.provider_last_seen[p] = now
        /\ now >= Epoch + StatusInterval

\* the seconds since the broker last handled a registration or a status push
\* of provider p
Unseen(B, p, current_time) == current_time - LastSeen(B, p)

\* C20: the broker never selects a provider whose last registration or
\* status push is 30 s old or older; the eviction sweep removes a provider
\* only when it has been unseen for more than 60 s; a provider unseen for
\* between 30 s and 60 s stays registered and is not selected.
StaleKeptUnselected ==
    /\ [](sel.done =>
            \A p \in Providers :
               (InProviders(sel.registry, p)
                /\ Unseen(sel.registry, p, sel.at) >= FreshnessWindow)
               => sel.result # p)
    /\ [][\A p \in Providers :
            /\ (InProviders(brk, p) /\ ~InProviders(brk', p))
               => Unseen(brk, p, now) > EvictionTimeout
            /\ (InProviders(brk, p) /\ now' = now
                  /\ Unseen(brk, p, now) >= FreshnessWindow
                  /\ Unseen(brk, p, now) <= EvictionTimeout)
               => InProviders(brk', p)]_vars

\* C20's case: provider_manager has just made its pass and kept a provider
\* unseen for exactly 60 s; select_provider, called for a request the
\* provider's space, price and reputation meet, does not return it
StaleButRegistered ==
    /\ sel.done
    /\ sel.request.max_price_per_gb_hour >= 40
    /\ sel.registry.mgr_pc = "sleep"
    /\ sel.registry.mgr_wake = sel.at + ManagerInterval
    /\ \E p \in Providers :
          /\ InProviders(sel.registry, p)
          /\ Unseen(sel.registry, p, sel.at) = EvictionTimeout
          /\ sel.registry.info[p].available_space_gb >= sel.request.space_gb
          /\ sel.registry.info[p].reputation >= RepFloor
          /\ sel.result # p

---------------------------------------------------------------------------
(* The message bus on its own: registrations, concurrent sends, receives *)

\* MessageBus.register_agent: the id's inbox becomes a new, empty queue
register_agent(boxes, agent_id) ==
    [a \in DOMAIN boxes \cup {agent_id} |->
        IF a = agent_id THEN <<>> ELSE boxes[a]]

\* the ids the bus is called with
BusAgents == {Broker, "buyer0"}
BusIds == BusAgents \cup {"provider0"}

\* what the callers of the bus have seen: the sends inside their latency
\* delay, the envelopes each receive returned, the register calls made, the
\* last send_message call and what it returned at once, the receives that
\* returned None
NoBusCalls ==
    [flying |-> {}, got |-> [a \in BusAgents |-> <<>>], registered |-> <<>>,
     last |-> "None", returned |-> "None", timeouts |-> 0]

\* MessageBus.__init__, no agent constructed yet
InitBus ==
    /\ now = Epoch
    /\ cfg = [providers |-> <<>>, buyers |-> <<>>, horizon |-> Epoch]
    /\ mailboxes = [a \in {} |-> <<>>]
    /\ message_count = 0
    /\ prov = <<>>
    /\ brk = NewBroker(0)
    /\ buy = <<>>
    /\ metrics = NewMetrics
    /\ drv = [pc |-> "done", i |-> 0, wake |-> Epoch]
    /\ req_count = 0
    /\ late = 0
    /\ sel = NoBusCalls
    /\ steps = 0

BusUnchanged == UNCHANGED <<now, cfg, prov, brk, buy, metrics, drv, req_count, late>>

\* an agent's constructor registers its id
BusRegister(a) ==
    /\ a \notin DOMAIN mailboxes
    /\ mailboxes' = register_agent(mailboxes, a)
    /\ sel' = [sel EXCEPT !.registered = Append(@, a)]
    /\ UNCHANGED <<message_count, steps>>
    /\ BusUnchanged

\* a register call for an id that has an inbox already
BusRegisterAgain(a) ==
    /\ a \in DOMAIN mailboxes
    /\ Len(sel.registered) < MaxBusRegistrations
    /\ mailboxes' = register_agent(mailboxes, a)
    /\ sel' = [sel EXCEPT !.registered = Append(@, a)]
    /\ UNCHANGED <<message_count, steps>>
    /\ BusUnchanged

\* send_message is called: without an inbox for the recipient it returns
\* False at once, else the caller is suspended for the latency
BusSend(from, to) ==
    /\ steps < MaxBusSends
    /\ steps' = steps + 1
    /\ sel' = IF CanSend(to)
              THEN [sel EXCEPT !.last = to, !.returned = "None",
                               !.flying = @ \cup {[from |-> from, to |-> to,
                                                   body |-> [type |-> "probe", k |-> steps]]}]
              ELSE [sel EXCEPT !.last = to, !.returned = "False"]
    /\ UNCHANGED <<mailboxes, message_count>>
    /\ BusUnchanged

\* the latency of one suspended send is over: the envelope is queued
BusArrive ==
    \E m \in sel.flying :
       /\ Enqueue(m.from, m.to, m.body)
       /\ sel' = [sel EXCEPT !.flying = @ \ {m}]
       /\ UNCHANGED steps
       /\ BusUnchanged

\* receive_message: the oldest envelope of the inbox, or None after the
\* timeout when the inbox stayed empty
BusReceive(a) ==
    /\ a \in DOMAIN mailboxes
    /\ IF mailboxes[a] # <<>>
       THEN /\ sel' = [sel EXCEPT !.got[a] = Append(@, Head(mailboxes[a]))]
            /\ mailboxes' = [mailboxes EXCEPT ![a] = Tail(@)]
       ELSE /\ sel.timeouts < MaxBusTimeouts
            /\ sel' = [sel EXCEPT !.timeouts = @ + 1]
            /\ UNCHANGED mailboxes
    /\ UNCHANGED <<message_count, steps>>
    /\ BusUnchanged

NextBus ==
    \/ \E a \in BusAgents : BusRegister(a)
    \/ \E from \in BusAgents, to \in BusIds : BusSend(from, to)
    \/ BusArrive
    \/ \E a \in BusAgents : BusReceive(a)

SpecBus == InitBus /\ [][NextBus]_vars

NextBusAgain ==
    \/ NextBus
    \/ \E a \in BusAgents : BusRegisterAgain(a)

SpecBusAgain == InitBus /\ [][NextBusAgain]_vars

---------------------------------------------------------------------------
(* Claims about the message bus *)

\* the envelope ids of a queue or of a list of received envelopes
IdsOf(q) == [i \in 1..Len(q) |-> q[i].id]

\* C21: a send_message call for a recipient without an inbox returns False
\* at once: the caller is not suspended for the latency, no inbox changes
\* and message_count is not advanced
UnknownRecipientRefused ==
    [][(steps' = steps + 1 /\ sel'.last \notin DOMAIN mailboxes)
         => /\ sel'.returned = "False"
            /\ sel'.flying = sel.flying
            /\ mailboxes' = mailboxes
            /\ message_count' = message_count]_vars

\* C21's case: with an envelope queued and another send inside its latency,
\* a send to an id without an inbox has just returned False
RefusedWhileBusy ==
    /\ sel.last \notin DOMAIN mailboxes
    /\ sel.returned = "False"
    /\ sel.flying # {}
    /\ \E a \in DOMAIN mailboxes : mailboxes[a] # <<>>

\* C22: every inbox hands out its envelopes in the order they were queued
\* (the envelope id is message_count at the enqueue), and each envelope ever
\* queued is either still in its inbox or was returned by exactly one receive
FifoAndExactlyOnce ==
    /\ \A a \in DOMAIN mailboxes :
          LET ids == IdsOf(sel.got[a]) \o IdsOf(mailboxes[a])
          IN  \A i, j \in 1..Len(ids) : i < j => ids[i] < ids[j]
    /\ \A n \in 0..(message_count - 1) :
          Cardinality({a \in DOMAIN mailboxes :
                         \E i \in 1..Len(sel.got[a]) : sel.got[a][i].id = n}
                      \cup {a \in DOMAIN mailboxes :
                              \E i \in 1..Len(mailboxes[a]) : mailboxes[a][i].id = n}) = 1
    /\ \A a \in DOMAIN mailboxes, n \in 0..(message_count - 1) :
          ~(/\ \E i \in 1..Len(sel.got[a]) : sel.got[a][i].id = n
            /\ \E i \in 1..Len(mailboxes[a]) : mailboxes[a][i].id = n)

\* C22's case: of two concurrent sends to one inbox the one called later
\* finished its latency first, and the receives returned it first
OvertakenSendReceivedLater ==
    \E a \in DOMAIN mailboxes :
       /\ Len(sel.got[a]) >= 2
       /\ sel.got[a][1].body.k > sel.got[a][2].body.k
       /\ sel.got[a][1].from # sel.got[a][2].from

\* C23: a register_agent call for an id that has an inbox already leaves the
\* inbox and the envelopes queued in it as they were
RegisterKeepsQueued ==
    [][\A a \in DOMAIN mailboxes :
          (Len(sel'.registered) > Len(sel.registered)
           /\ sel'.registered[Len(sel'.registered)] = a)
          => mailboxes'[a] = mailboxes[a]]_vars

---------------------------------------------------------------------------
(* A run that is stopped and then left alone until every loop has ended *)

\* run_single_simulation for StopAfter seconds, then the event loop runs on
\* (the next iteration of run_monte_carlo_simulation) past the longest sleep
InitHalt ==
    Constructed([providers |-> <<"provider0">>, buyers |-> <<"buyer0">>,
                 spaces |-> {6}, durations |-> {2}, max_prices |-> {100},
                 contract_rands |-> {1000}, request_rands |-> {100},
                 horizon |-> Epoch + MaxTimeHalt, duration |-> StopAfter,
                 max_requests |-> MaxRequests, buyer_delay |-> 1],
                10, 50, 0, 0)

NextHalt ==
    \/ Next
    \/ BrokerManager
    \/ \E p \in Providers : ProviderPricing(p)

SpecHalt == InitHalt /\ [][NextHalt]_vars

\* the event loop runs every task that is ready, and time passes
FairHalt == SpecHalt /\ WF_vars(NextHalt)

---------------------------------------------------------------------------
(* Claims about termination *)

\* every loop of every agent of the run has left its while
AllLoopsEnded ==
    /\ brk.h_pc = "done" /\ brk.mgr_pc = "done"
    /\ \A p \in Range(cfg.providers) :
          /\ prov[p].h_pc = "done" /\ prov[p].sweep_pc = "done"
          /\ prov[p].status_pc = "done" /\ prov[p].pricing_pc = "done"
    /\ \A b \in Range(cfg.buyers) :
          buy[b].h_pc = "done" /\ buy[b].req_pc = "done"

\* C24: a handler whose receive is pending when stop() is called gets None
\* by the receive's timeout at the latest; once the flag is false no sweep,
\* pricing, status, request or eviction pass starts and a loop that has
\* ended stays ended; and after stop() every loop ends
LoopsEndAfterStop ==
    /\ [](/\ \A p \in Range(cfg.providers) :
               (~prov[p].running /\ prov[p].start_pc = "started" /\ prov[p].h_pc = "recv")
               => now <= prov[p].h_due
          /\ \A b \in Range(cfg.buyers) :
               (~buy[b].running /\ buy[b].h_pc = "recv") => now <= buy[b].h_due
          /\ (~brk.running /\ brk.h_pc = "recv") => now <= brk.h_due)
    /\ [][/\ \A p \in Range(cfg.providers) :
               (~prov[p].running /\ prov[p].start_pc = "started")
               => /\ prov'[p].contracts_completed = prov[p].contracts_completed
                  /\ prov'[p].completed_contracts = prov[p].completed_contracts
                  /\ prov'[p].current_price_per_gb_hour = prov[p].current_price_per_gb_hour
                  /\ prov'[p].sweep_wake = prov[p].sweep_wake
                  /\ prov'[p].pricing_wake = prov[p].pricing_wake
                  /\ prov[p].status_pc # "send" => prov'[p].status_pc # "send"
                  /\ prov[p].h_pc = "done" => prov'[p].h_pc = "done"
          /\ \A b \in Range(cfg.buyers) :
               (~buy[b].running /\ buy[b].req_pc # "off")
               => /\ req_count' = req_count
                  /\ buy[b].req_pc # "send" => buy'[b].req_pc # "send"
                  /\ buy[b].h_pc = "done" => buy'[b].h_pc = "done"
          /\ (~brk.running /\ brk.mgr_pc # "off")
               => /\ brk'.mgr_wake = brk.mgr_wake
                  /\ brk'.providers = brk.providers
                  /\ brk.h_pc = "done" => brk'.h_pc = "done"]_vars
    /\ (drv.pc = "final") ~> AllLoopsEnded

\* C24's case: the run was stopped with contracts made, the provider_manager
\* loop slept out its 15 s, and every loop has ended
StoppedAndAllEnded ==
    /\ AllLoopsEnded
    /\ drv.pc = "done"
    /\ now >= Epoch + ManagerInterval
    /\ \E p \in Range(cfg.providers) : prov[p].requests_accepted >= 1

---------------------------------------------------------------------------
(* Claims about the contract sweep and the contract lifecycle *)

\* the active contracts of a provider that are over, and those that are not
Over(P) == SelectSeq(P.active_contracts, LAMBDA c : c.end_time <= now)
NotOver(P) == SelectSeq(P.active_contracts, LAMBDA c : c.end_time > now)

\* C25: a pass of contract_manager adds the space of exactly the active
\* contracts with end_time <= now back, once each, appends those contracts
\* to the completed list marked completed and removes them from the active
\* set in the same pass; the contracts with end_time > now stay as they
\* were; nothing but a pass ever returns space
SweepReleasesExactlyOver ==
    [][\A p \in Range(cfg.providers) :
          /\ prov'[p].sweep_wake # prov[p].sweep_wake
             => /\ prov'[p].available_space_gb
                     = prov[p].available_space_gb + SumSpace(Over(prov[p]))
                /\ prov'[p].active_contracts = NotOver(prov[p])
                /\ Len(prov'[p].completed_contracts)
                     = Len(prov[p].completed_contracts) + Len(Over(prov[p]))
                /\ \A i \in 1..Len(Over(prov[p])) :
                      prov'[p].completed_contracts[Len(prov[p].completed_contracts) + i]
                         = [Over(prov[p])[i] EXCEPT !.status = "completed"]
                /\ \A i \in 1..Len(prov[p].completed_contracts) :
                      prov'[p].completed_contracts[i] = prov[p].completed_contracts[i]
          /\ prov'[p].available_space_gb > prov[p].available_space_gb
             => prov'[p].sweep_wake # prov[p].sweep_wake]_vars

\* C25's case: a pass has just released a contract that was over while
\* another contract, not over yet, stays in the active set
SweptOneKeptOne ==
    \E p \in Range(cfg.providers) :
       /\ prov[p].sweep_pc = "sleep"
       /\ prov[p].sweep_wake = now + SweepInterval
       /\ \E c \in Range(prov[p].completed_contracts) :
             c.end_time <= now /\ c.end_time > now - SweepInterval
       /\ \E c \in Range(prov[p].active_contracts) : c.end_time > now

\* the contracts a provider holds, active or completed
HeldBy(P) == Range(P.active_contracts) \cup Range(P.completed_contracts)

\* C26: every contract in a provider's active set has status active, and a
\* contract enters the completed list of a provider or of a buyer only from
\* the active set, where its status was active
LifecycleInOrder ==
    /\ [](\A p \in Range(cfg.providers) :
             \A c \in Range(prov[p].active_contracts) : c.status = "active")
    /\ [][/\ \A p \in Range(cfg.providers) :
               \A i \in (Len(prov[p].completed_contracts) + 1)..Len(prov'[p].completed_contracts) :
                  \E c \in Range(prov[p].active_contracts) :
                     /\ c.contract_id = prov'[p].completed_contracts[i].contract_id
                     /\ c.status = "active"
          /\ \A b \in Range(cfg.buyers) :
               \A i \in (Len(buy[b].completed_contracts) + 1)..Len(buy'[b].completed_contracts) :
                  \E c \in Range(buy[b].active_contracts) :
                     /\ c.contract_id = buy'[b].completed_contracts[i].contract_id
                     /\ c.status = "active"]_vars

\* C27: once the broker has injected corruption on every allocation the
\* provider accepted, every contract the provider holds has status failed
FaultedContractFailed ==
    \A p \in Range(cfg.providers) :
       (/\ brk.corruption_probability = 100
        /\ prov[p].requests_accepted > 0
        /\ brk.corrupted_contracts = prov[p].requests_accepted)
       => \A c \in HeldBy(prov[p]) : c.status = "failed"

\* C28: when a buyer moves a contract from its active set to its completed
\* list the aggregator's contracts_completed grows by one and its
\* contracts_created stays; contracts_completed never exceeds
\* contracts_created
CompletionCounted ==
    /\ [][\A b \in Range(cfg.buyers) :
             Len(buy'[b].completed_contracts) > Len(buy[b].completed_contracts)
             => /\ metrics'.contracts_completed = metrics.contracts_completed + 1
                /\ metrics'.contracts_created = metrics.contracts_created]_vars
    /\ [](metrics.contracts_completed <= metrics.contracts_created)

---------------------------------------------------------------------------
(* dynamic_pricing on its own: a provider that is filled and emptied *)

\* base prices in cents and contract sizes in GB of a provider of 10 GB
PriceBases == {50, 100}
PriceSpaces == {1, 3, 5, 8}

InitPrices ==
    \E base \in PriceBases :
        ConstructedWith([providers |-> <<"provider0">>, buyers |-> <<"buyer0">>,
                         spaces |-> PriceSpaces, durations |-> {1}, max_prices |-> {100},
                         contract_rands |-> {1000}, request_rands |-> {100},
                         horizon |-> Epoch + MaxPriceWait, duration |-> RunDuration,
                         max_requests |-> 1, buyer_delay |-> 1],
                        [p \in Providers |-> NewProvider(10, base, 0)],
                        0)

PriceUnchanged ==
    UNCHANGED <<cfg, mailboxes, message_count, brk, buy, metrics, drv, req_count, late>>

\* process_allocation_request accepts a contract of one second
PriceOccupy(p) ==
    \E space_gb \in cfg.spaces :
       /\ steps < MaxPriceSteps
       /\ TRUE \in can_fulfill_request(prov[p], space_gb)
       /\ prov' = [prov EXCEPT ![p] =
             AcceptContract(@, StorageContract(steps, "buyer0", p, space_gb, 1,
                                               @.current_price_per_gb_hour,
                                               CostOf(space_gb, 1, @.current_price_per_gb_hour),
                                               now, now + 1, "pending"))]
       /\ steps' = steps + 1
       /\ sel' = NoProbe
       /\ UNCHANGED now
       /\ PriceUnchanged

\* a second passes
PriceWait ==
    /\ now < cfg.horizon
    /\ now' = now + 1
    /\ UNCHANGED <<prov, sel, steps>>
    /\ PriceUnchanged

\* a pass of contract_manager
PriceSweep(p) ==
    /\ prov' = [prov EXCEPT ![p] = SweepPass(@)]
    /\ sel' = NoProbe
    /\ UNCHANGED <<now, steps>>
    /\ PriceUnchanged

\* a pass of dynamic_pricing
PriceRecompute(p) ==
    /\ prov' = [prov EXCEPT ![p] = PricingPass(@)]
    /\ sel' = [NoProbe EXCEPT !.done = TRUE, !.result = p]
    /\ UNCHANGED <<now, steps>>
    /\ PriceUnchanged

NextPrices ==
    \/ PriceOccupy("provider0")
    \/ PriceWait
    \/ PriceSweep("provider0")
    \/ PriceRecompute("provider0")

SpecPrices == InitPrices /\ [][NextPrices]_vars

\* C29: right after a pass of dynamic_pricing the price is 1.5 times the
\* base when more than 0.8 of the space is in use, 0.8 times the base when
\* less than 0.3 is in use and the base otherwise, 0.8 and 0.3 themselves
\* included; the price is always between half and twice the base
PriceFollowsUtilization ==
    \A p \in Range(cfg.providers) :
       LET P == prov[p]
           used == P.total_space_gb - P.available_space_gb
       IN /\ (sel.done /\ sel.result = p) =>
                /\ used * 10 > 8 * P.total_space_gb
                   => P.current_price_per_gb_hour * 10 = P.base_price_per_gb_hour * 15
                /\ used * 10 < 3 * P.total_space_gb
                   => P.current_price_per_gb_hour * 10 = P.base_price_per_gb_hour * 8
                /\ (used * 10 >= 3 * P.total_space_gb /\ used * 10 <= 8 * P.total_space_gb)
                   => P.current_price_per_gb_hour = P.base_price_per_gb_hour
          /\ 2 * P.current_price_per_gb_hour >= P.base_price_per_gb_hour
          /\ P.current_price_per_gb_hour <= 2 * P.base_price_per_gb_hour

\* C29's case: the price was raised at a utilization above 0.8, contracts
\* ended, and the pass made at a utilization of exactly 0.8 has just set
\* the price back to the base
BasePriceAtEightTenths ==
    \E p \in Range(cfg.providers) :
       /\ sel.done /\ sel.result = p
       /\ (prov[p].total_space_gb - prov[p].available_space_gb) * 10
             = 8 * prov[p].total_space_gb
       /\ prov[p].current_price_per_gb_hour = prov[p].base_price_per_gb_hour
       /\ prov[p].completed_contracts # <<>>
       /\ prov[p].total_earnings > CostOf(10, 1, prov[p].base_price_per_gb_hour)

---------------------------------------------------------------------------
(* A run in which messages without their required fields reach the handlers *)

\* a request id no buyer generates
StrayId == <<"buyer0", 0, 0>>

\* bodies that lack fields, and the inbox each is put in: an
\* allocation_request without contract, without space_gb in the contract and
\* with space_gb but no other field of the contract; a storage_request
\* without request and with half a request; a status_update without
\* provider_id
MalformedMessages ==
    <<[to |-> "provider0", from |-> Broker,
       body |-> [type |-> "allocation_request", request_id |-> StrayId]],
      [to |-> Broker, from |-> "buyer0",
       body |-> [type |-> "storage_request"]],
      [to |-> "provider0", from |-> Broker,
       body |-> [type |-> "allocation_request", request_id |-> StrayId,
                 contract |-> [contract_id |-> <<0, 0>>]]],
      [to |-> Broker, from |-> "provider0",
       body |-> [type |-> "status_update", available_space_gb |-> 0,
                 reputation |-> 0, price_per_gb_hour |-> 0]],
      [to |-> "provider0", from |-> Broker,
       body |-> [type |-> "allocation_request", request_id |-> StrayId,
                 contract |-> [contract_id |-> <<0, 0>>, space_gb |-> 4]]],
      [to |-> Broker, from |-> "buyer0",
       body |-> [type |-> "storage_request",
                 request |-> [request_id |-> StrayId, space_gb |-> 4]]]>>

\* one provider of 10 GB that fails no request or every request, one buyer
\* that asks for 6 GB for 2 s
InitMalformed ==
    \E failp \in {0, 100} :
        Constructed([providers |-> <<"provider0">>, buyers |-> <<"buyer0">>,
                     spaces |-> {6}, durations |-> {2}, max_prices |-> {100},
                     contract_rands |-> {1000}, request_rands |-> {100},
                     horizon |-> Epoch + MaxTimeMalformed,
                     duration |-> MaxTimeMalformed + 1,
                     max_requests |-> 1, buyer_delay |-> 1],
                    10, 50, failp, 0)

\* the next of the bodies is queued for its recipient
MalformedArrives ==
    /\ steps < Len(MalformedMessages)
    /\ Quiet
    /\ brk.running
    /\ \A p \in Range(cfg.providers) : prov[p].start_pc = "started"
    /\ LET m == MalformedMessages[steps + 1]
       IN Enqueue(m.from, m.to, m.body)
    /\ steps' = steps + 1
    /\ UNCHANGED <<now, cfg, prov, brk, buy, metrics, drv, req_count, sel, late>>

\* the steps of a run within MaxTimeMalformed seconds: the buyer's second
\* request and the second status push are further away than that
NextMalformed ==
    \/ Tick
    \/ DriverStartNetwork
    \/ DriverStartProvider
    \/ DriverStartBuyer
    \/ DriverStaggered
    \/ BrokerReceive
    \/ BrokerSendDone
    \/ \E p \in Providers : ProviderRegistered(p)
    \/ \E p \in Providers : ProviderReceive(p)
    \/ \E p \in Providers : ProviderDecide(p)
    \/ \E p \in Providers : ProviderRespond(p)
    \/ \E p \in Providers : ProviderSweep(p)
    \/ \E p \in Providers : ProviderStatusSent(p)
    \/ \E b \in Buyers : BuyerRequestSent(b)
    \/ \E b \in Buyers : BuyerReceive(b)
    \/ \E b \in Buyers : BuyerTrack(b)
    \/ MalformedArrives

SpecMalformed == InitMalformed /\ [][NextMalformed]_vars

\* the payload lacks a field its handler needs: a storage_request without a
\* full request, an allocation_request without a full contract, a
\* status_update without provider_id
LacksFields(body) ==
    \/ /\ body.type = "storage_request"
       /\ ~("request" \in DOMAIN body /\ RequestFields \subseteq DOMAIN body.request)
    \/ /\ body.type = "allocation_request"
       /\ ~("contract" \in DOMAIN body /\ ContractFields \subseteq DOMAIN body.contract)
    \/ /\ body.type = "status_update"
       /\ "provider_id" \notin DOMAIN body

\* C30: a handler that takes a message whose payload lacks required fields
\* leaves the broker's registry and pending allocations, and the provider's
\* available space and active contracts, as they were, through every step
\* of handling it, and is back in its loop afterwards
MalformedDropped ==
    [][/\ (/\ brk.h_pc = "recv"
           /\ mailboxes[Broker] # <<>>
           /\ mailboxes'[Broker] = Tail(mailboxes[Broker])
           /\ LacksFields(Head(mailboxes[Broker]).body))
          => /\ brk'.providers = brk.providers
             /\ brk'.info = brk.info
             /\ brk'.provider_last_seen = brk.provider_last_seen
             /\ brk'.pending_allocations = brk.pending_allocations
             /\ brk'.h_pc = "recv"
       /\ \A p \in Range(cfg.providers) :
             /\ (/\ prov[p].h_pc = "recv"
                 /\ mailboxes[p] # <<>>
                 /\ mailboxes'[p] = Tail(mailboxes[p])
                 /\ LacksFields(Head(mailboxes[p]).body))
                => /\ prov'[p].available_space_gb = prov[p].available_space_gb
                   /\ prov'[p].active_contracts = prov[p].active_contracts
                   /\ prov'[p].h_pc \in {"recv", "proc"}
             /\ (/\ prov[p].h_pc \in {"proc", "send"}
                 /\ prov'[p].h_pc # prov[p].h_pc
                 /\ LacksFields(prov[p].h_msg.body))
                => /\ prov'[p].available_space_gb = prov[p].available_space_gb
                   /\ prov'[p].active_contracts = prov[p].active_contracts
                   /\ prov'[p].h_pc \in {"recv", "send"}]_vars

\* C30's case: all six bodies were taken by their handlers, the provider
\* holds the contract of the buyer's request, which it accepted, and both
\* handlers wait for the next message
MalformedAllTaken ==
    /\ steps = Len(MalformedMessages)
    /\ \A a \in DOMAIN mailboxes : mailboxes[a] = <<>>
    /\ brk.h_pc = "recv"
    /\ brk.successful_allocations = 1
    /\ \A p \in Range(cfg.providers) :
          /\ prov[p].h_pc = "recv"
          /\ prov[p].requests_accepted = 1
          /\ prov[p].requests_received = 3
          /\ prov[p].available_space_gb = 4

---------------------------------------------------------------------------
(* Claims about the frame of a rejection and about identifiers *)

\* C31: the step in which a provider rejects leaves its available space, its
\* active and completed contracts, its earnings and its acceptance counters
\* as they were, adds one to requests_rejected and failure_count, lowers the
\* reputation by 2 % down to the floor, and queues nothing yet; the step that
\* ends the send of a rejected response appends exactly that one envelope to
\* the inbox of the request's sender and to no other inbox
RejectionFrame ==
    [][\A p \in Range(cfg.providers) :
          /\ (Decides(p) /\ prov'[p].h_out.status = "rejected")
             => /\ prov'[p].available_space_gb = prov[p].available_space_gb
                /\ prov'[p].active_contracts = prov[p].active_contracts
                /\ prov'[p].completed_contracts = prov[p].completed_contracts
                /\ prov'[p].total_earnings = prov[p].total_earnings
                /\ prov'[p].requests_accepted = prov[p].requests_accepted
                /\ prov'[p].success_count = prov[p].success_count
                /\ prov'[p].requests_received = prov[p].requests_received
                /\ prov'[p].requests_rejected = prov[p].requests_rejected + 1
                /\ prov'[p].failure_count = prov[p].failure_count + 1
                /\ prov'[p].reputation <= prov[p].reputation
                /\ prov'[p].reputation >= RepMin
                /\ mailboxes' = mailboxes
          /\ (/\ prov[p].h_pc = "send"
              /\ prov[p].h_out.status = "rejected"
              /\ prov'[p].h_pc # "send")
             => /\ mailboxes'[prov[p].h_msg.from]
                     = Append(mailboxes[prov[p].h_msg.from],
                              [from |-> p, to |-> prov[p].h_msg.from,
                               body |-> prov[p].h_out, id |-> message_count])
                /\ \A a \in DOMAIN mailboxes \ {prov[p].h_msg.from} :
                      mailboxes'[a] = mailboxes[a]
                /\ prov'[p].available_space_gb = prov[p].available_space_gb
                /\ prov'[p].active_contracts = prov[p].active_contracts
                /\ prov'[p].total_earnings = prov[p].total_earnings
                /\ prov'[p].requests_rejected = prov[p].requests_rejected]_vars

\* C31's case: a provider that holds an active contract and has earned from
\* it has just rejected a request and is sending the rejected response
RejectedWhileHolding ==
    \E p \in Range(cfg.providers) :
       /\ prov[p].h_pc = "send"
       /\ prov[p].h_out.status = "rejected"
       /\ prov[p].active_contracts # <<>>
       /\ prov[p].total_earnings > 0
       /\ prov[p].available_space_gb < prov[p].total_space_gb
       /\ prov[p].requests_rejected = 1

\* a run whose buyer is constructed with request_interval = (0, 1): the
\* next request may follow within the second of the last
InitQuick ==
    Constructed([providers |-> <<"provider0">>, buyers |-> <<"buyer0">>,
                 spaces |-> {3}, durations |-> {2}, max_prices |-> {100},
                 contract_rands |-> {1000}, request_rands |-> {100, 101},
                 horizon |-> Epoch + MaxTimeQuick, duration |-> MaxTimeQuick + 1,
                 max_requests |-> MaxRequests, buyer_delay |-> 1,
                 request_interval |-> <<0, 1>>],
                10, 50, 0, 0)

\* the steps of that run within MaxTimeQuick seconds
NextQuick ==
    \/ Tick
    \/ DriverStartNetwork
    \/ DriverStartProvider
    \/ DriverStartBuyer
    \/ DriverStaggered
    \/ BrokerReceive
    \/ BrokerSendDone
    \/ \E p \in Providers : ProviderRegistered(p)
    \/ \E p \in Providers : ProviderReceive(p)
    \/ \E p \in Providers : ProviderDecide(p)
    \/ \E p \in Providers : ProviderRespond(p)
    \/ \E p \in Providers : ProviderSweep(p)
    \/ \E p \in Providers : ProviderStatusSent(p)
    \/ \E b \in Buyers : BuyerRequest(b)
    \/ \E b \in Buyers : BuyerRequestSent(b)
    \/ \E b \in Buyers : BuyerReceive(b)
    \/ \E b \in Buyers : BuyerTrack(b)

SpecQuick == InitQuick /\ [][NextQuick]_vars

\* the request ids some record or message of the run holds
RequestIdsHeld ==
    UNION {PendingRequestIds(buy[b]) : b \in Range(cfg.buyers)}
    \cup PendingIds(brk)
    \cup {m.request.request_id : m \in {x \in BodiesInFlight : x.type = "storage_request"}}

\* C32: the request_id a buyer generates is held by no pending set, by no
\* pending-allocation entry and by no storage_request under way, so the new
\* request gets an entry of its own in the buyer's pending set
RequestIdsDistinct ==
    [][\A b \in Range(cfg.buyers) :
          (buy[b].req_pc = "sleep" /\ buy'[b].req_pc = "send")
          => /\ buy'[b].req_msg.request.request_id \notin RequestIdsHeld
             /\ Len(buy'[b].pending_requests) = Len(buy[b].pending_requests) + 1]_vars

\* the envelopes queued so far that the bus callers still see: in an inbox or
\* returned by a receive
EnvelopesSeen ==
    UNION {Range(mailboxes[a]) \cup Range(sel.got[a]) : a \in DOMAIN mailboxes}

\* C33: the envelope a send queues carries an id larger than the id of every
\* envelope queued before it, in whatever inbox, and no two envelopes carry
\* the same id
EnvelopeIdsIncrease ==
    /\ [][\A a \in DOMAIN mailboxes :
             Len(mailboxes'[a]) > Len(mailboxes[a])
             => \A x \in EnvelopesSeen :
                   x.id < mailboxes'[a][Len(mailboxes'[a])].id]_vars
    /\ [](\A x, y \in EnvelopesSeen : x.id = y.id => x = y)

\* C33's case: of two concurrent sends to different inboxes the one called
\* later was queued first and carries the smaller id
LaterCallSmallerId ==
    \E a, b \in DOMAIN mailboxes :
       /\ a # b
       /\ \E x \in Range(mailboxes[a]), y \in Range(mailboxes[b]) :
             x.id < y.id /\ x.body.k > y.body.k

---------------------------------------------------------------------------
(* Claims about the counters and about what buyer and provider hold *)

\* the storage requests the buyers of the run have sent
RequestsSent ==
    LET b0 == IF "buyer0" \in Range(cfg.buyers) THEN buy["buyer0"].requests_sent ELSE 0
        b1 == IF "buyer1" \in Range(cfg.buyers) THEN buy["buyer1"].requests_sent ELSE 0
    IN b0 + b1

\* C34: the aggregator's total_requests is the number of storage requests the
\* buyers have sent, and its successful and failed requests together never
\* exceed that number
RequestsCountedOnce ==
    /\ metrics.total_requests = RequestsSent
    /\ metrics.successful_requests + metrics.failed_requests <= RequestsSent

\* C35: a contract a buyer holds has the price_per_gb_hour and the total_cost
\* of the contract with that contract_id that the provider stored
SamePriceBothSides ==
    \A b \in Range(cfg.buyers), p \in Range(cfg.providers) :
       \A c \in Range(buy[b].active_contracts) \cup Range(buy[b].completed_contracts) :
          \A d \in HeldBy(prov[p]) :
             (c.contract_id = d.contract_id /\ c.provider_id = p /\ d.buyer_id = b)
             => /\ c.price_per_gb_hour = d.price_per_gb_hour
                /\ c.total_cost = d.total_cost

\* C36: for every contract in a buyer's active set the provider it names
\* holds a contract with that contract_id in its own active set
BuyerActiveProviderActive ==
    \A b \in Range(cfg.buyers) :
       \A c \in Range(buy[b].active_contracts) :
          /\ c.provider_id \in Range(cfg.providers)
          /\ DictHas(prov[c.provider_id].active_contracts, c.contract_id, ContractKey)

---------------------------------------------------------------------------
(* The broker between registrations, status pushes and evictions *)

\* IntermediaryNetworkAgent.start
StrayStart ==
    /\ brk.h_pc = "off"
    /\ brk' = StartBroker(brk)
    /\ UNCHANGED <<now, cfg, mailboxes, message_count, prov, buy, metrics, drv, req_count, sel, steps, late>>

\* time passes while the broker's inbox is empty
StrayWait ==
    /\ brk.h_pc = "recv"
    /\ mailboxes[Broker] = <<>>
    /\ \E d \in {FreshnessWindow, FreshnessWindow + 1} :
         /\ now + d <= cfg.horizon
         /\ now' = now + d
    /\ UNCHANGED <<cfg, mailboxes, message_count, prov, brk, buy, metrics, drv, req_count, sel, steps, late>>

\* a provider starts and its registration reaches the broker's inbox
StrayRegistration(p) ==
    /\ brk.h_pc = "recv"
    /\ message_count < MaxStrayMessages
    /\ Enqueue(p, Broker, RegistrationOf(p, prov[p]))
    /\ UNCHANGED <<now, cfg, prov, brk, buy, metrics, drv, req_count, sel, steps, late>>

\* the status push of a provider whose reputation has dropped reaches the
\* broker's inbox, whether the broker knows the provider or not
StrayStatus(p) ==
    /\ brk.h_pc = "recv"
    /\ message_count < MaxStrayMessages
    /\ Enqueue(p, Broker, StatusOf(p, update_reputation(prov[p], FALSE)))
    /\ UNCHANGED <<now, cfg, prov, brk, buy, metrics, drv, req_count, sel, steps, late>>

\* a provider the broker has evicted is still running and pushes its status
EvictedStatus(p) ==
    /\ brk.h_pc = "recv"
    /\ message_count < MaxStrayMessages
    /\ steps < MaxStraySteps
    /\ ~InProviders(brk, p)
    /\ brk.info[p] # NoMsg
    /\ Enqueue(p, Broker, StatusOf(p, update_reputation(prov[p], FALSE)))
    /\ steps' = steps + 1
    /\ UNCHANGED <<now, cfg, prov, brk, buy, metrics, drv, req_count, sel, late>>

\* provider_manager makes a pass
StraySweep ==
    /\ brk.h_pc = "recv"
    /\ mailboxes[Broker] = <<>>
    /\ now >= brk.mgr_wake
    /\ brk' = ManagerPass(brk)
    /\ UNCHANGED <<now, cfg, mailboxes, message_count, prov, buy, metrics, drv, req_count, sel, steps, late>>

InitStray ==
    Constructed([providers |-> <<"provider0", "provider1">>, buyers |-> <<"buyer0">>,
                 spaces |-> {5}, durations |-> {2}, max_prices |-> {100},
                 contract_rands |-> {1000}, request_rands |-> {100},
                 horizon |-> Epoch + MaxTimeStray, duration |-> MaxTimeStray + 1,
                 max_requests |-> 1, buyer_delay |-> 1],
                10, 40, 0, 0)

NextStray ==
    \/ StrayStart
    \/ StrayWait
    \/ \E p \in Range(cfg.providers) : StrayRegistration(p)
    \/ \E p \in Range(cfg.providers) : StrayStatus(p)
    \/ \E p \in Range(cfg.providers) : EvictedStatus(p)
    \/ StraySweep
    \/ BrokerReceive

SpecStray == InitStray /\ [][NextStray]_vars

\* the broker's handler takes a message of the given type
BrokerTakes(type) ==
    /\ brk.h_pc = "recv"
    /\ mailboxes[Broker] # <<>>
    /\ Head(mailboxes[Broker]).body.type = type
    /\ mailboxes'[Broker] = Tail(mailboxes[Broker])

\* C37: handling a status_update of a provider id that is not in the registry
\* leaves the registry, the cached provider data and the last-seen table as
\* they were, and a provider id enters the registry only in the step that
\* handles a provider_registration of that id
StrayStatusIgnored ==
    [][/\ (/\ BrokerTakes("status_update")
           /\ ~InProviders(brk, Head(mailboxes[Broker]).body.provider_id))
          => /\ brk'.providers = brk.providers
             /\ brk'.info = brk.info
             /\ brk'.provider_last_seen = brk.provider_last_seen
       /\ \A p \in Providers :
             (~InProviders(brk, p) /\ InProviders(brk', p))
             => /\ BrokerTakes("provider_registration")
                /\ Head(mailboxes[Broker]).body.provider_info.agent_id = p]_vars

\* C37's case: a provider was registered and then evicted after more than
\* 60 s of silence; the broker has taken the status push the provider sent
\* after that, which changed nothing: the provider is still out of the
\* registry and the last-seen table, and the reputation the broker last cached
\* for it is the one it registered with
EvictedStaysOut ==
    \E p \in Range(cfg.providers) :
       /\ steps = 1
       /\ mailboxes[Broker] = <<>>
       /\ ~InProviders(brk, p)
       /\ p \notin DOMAIN brk.provider_last_seen
       /\ brk.info[p] # NoMsg
       /\ brk.info[p].reputation = RepInitial
       /\ \A q \in Range(cfg.providers) \ {p} : brk.info[q] = NoMsg

\* C38: the contract_ids the broker makes are all different, so a provider
\* that accepts a contract stores it as a new entry of its active set and
\* never in the place of an entry it already holds
AcceptAddsEntry ==
    [][\A p \in Range(cfg.providers) :
          (Decides(p) /\ prov'[p].requests_accepted = prov[p].requests_accepted + 1)
          => Len(prov'[p].active_contracts) = Len(prov[p].active_contracts) + 1]_vars


\* C39: whenever the broker's handler is between two messages, the requests
\* it has processed are the successful allocations, the failed allocations
\* and the entries still pending, each counted once
BrokerCountersBalance ==
    brk.h_pc = "recv"
    => brk.requests_processed =
          brk.successful_allocations + brk.failed_allocations
              + Len(brk.pending_allocations)


\* C40: total_providers_registered is the number of distinct provider ids of
\* which the broker has handled a provider_registration
RegisteredCounted ==
    brk.total_providers_registered =
        Cardinality({p \in DOMAIN brk.info : brk.info[p] # NoMsg})

=============================================================================
